---- MODULE Spec2Model ----
(***************************************************************************)
(* A model of rustable, the user-space authorization server for the        *)
(* Medusa security module: connection setup, the reader loop and its       *)
(* schema registry, the per-event handler tasks with their fetch/update    *)
(* request correlation, the writer task, and the attribute store.          *)
(***************************************************************************)
EXTENDS Integers, Sequences, FiniteSets, TLC

(***************************************************************************)
(* Bounds of the model.                                                    *)
(***************************************************************************)
\* number of authorization requests the kernel sends on one connection
MaxEvents == 2
\* number of buffers given to the writer when the writer is studied alone
MaxBufs == 3
\* largest protocol version a peer announces when the setup is studied
MaxVersion == 7

(***************************************************************************)
(* Program constants (src/src/medusa/constants.rs).                        *)
(***************************************************************************)
\* u64 values that do not fit a machine integer of the checker are written
\* as <<high 32 bits, low 32 bits>>.
GREETING_NATIVE_BYTE_ORDER == <<0, 1711308378>>
GREETING_REVERSED_BYTE_ORDER == <<1518207078, 0>>
PROTOCOL_VERSION == 2
MEDUSA_COMM_FETCH_REQUEST == 136
MEDUSA_COMM_UPDATE_REQUEST == 138
MEDUSA_COMM_AUTHANSWER == 129
REQUEST_ID_START == 111

\* MedusaAnswer as the u16 sent to the kernel
MedusaAnswer == [Err |-> 65535, Yes |-> 0, Deny |-> 1, Skip |-> 2, Allow |-> 3]

\* the default answers of the two builds exchanged
DEFAULT_ANSWER_exchanged(debug_assertions) ==
    IF debug_assertions THEN MedusaAnswer.Deny ELSE MedusaAnswer.Allow

\* the compile-time default answer: Allow (Ok) with debug_assertions, else Deny
DEFAULT_ANSWER(debug_assertions) ==
    IF debug_assertions THEN MedusaAnswer.Allow ELSE MedusaAnswer.Deny

(***************************************************************************)
(* Concurrent maps (DashMap / HashMap): insert overwrites, remove deletes. *)
(***************************************************************************)
EmptyMap == [k \in {} |-> 0]

Insert(map, k, v) ==
    [x \in DOMAIN map \cup {k} |-> IF x = k THEN v ELSE map[x]]

Remove(map, k) ==
    [x \in DOMAIN map \ {k} |-> map[x]]

(***************************************************************************)
(* Wire encoding of what the server writes (request.rs).  A buffer is the  *)
(* sequence of its fields in wire order; the packed attribute data of a    *)
(* request is its last field.                                              *)
(***************************************************************************)
MedusaRequest_to_vec(req_type, class_id, id, data) ==
    << IF req_type = "Fetch" THEN MEDUSA_COMM_FETCH_REQUEST
                             ELSE MEDUSA_COMM_UPDATE_REQUEST,
       class_id, id, data >>

\* a decision that always carries the id of the first request
DecisionAnswer_to_vec_first_id(request_id, status) ==
    << MEDUSA_COMM_AUTHANSWER, 1000, status >>

DecisionAnswer_to_vec(request_id, status) ==
    << MEDUSA_COMM_AUTHANSWER, request_id, status >>

\* the buffers found in a stream of written fields; an unfinished tail is
\* left out (the peer has not received it in full)
RECURSIVE ParseStream(_)
ParseStream(words) ==
    IF words = <<>> THEN <<>>
    ELSE LET n == IF words[1] = MEDUSA_COMM_AUTHANSWER THEN 3 ELSE 4
         IN  IF Len(words) < n THEN <<>>
             ELSE <<SubSeq(words, 1, n)>> \o ParseStream(SubSeq(words, n + 1, Len(words)))

RECURSIVE Flatten(_)
Flatten(bufs) ==
    IF bufs = <<>> THEN <<>> ELSE Head(bufs) \o Flatten(Tail(bufs))

IsDecision(buf) == buf[1] = MEDUSA_COMM_AUTHANSWER
IsRequest(buf) == buf[1] \in {MEDUSA_COMM_FETCH_REQUEST, MEDUSA_COMM_UPDATE_REQUEST}

(***************************************************************************)
(* Bitmap primitives over byte sequences (bitmap.rs).                      *)
(***************************************************************************)
RECURSIVE ByteAnd(_, _, _)
ByteAnd(a, b, nbits) ==
    IF nbits = 0 THEN 0
    ELSE (a % 2) * (b % 2) + 2 * ByteAnd(a \div 2, b \div 2, nbits - 1)

\* bitmap::and: the first min(len) bytes of left, and-ed with right
bitmap_and(left, right) ==
    LET len == IF Len(left) < Len(right) THEN Len(left) ELSE Len(right)
    IN  [i \in 1..len |-> ByteAnd(left[i], right[i], 8)]

bitmap_all(vec) == \A i \in 1..Len(vec) : vec[i] = 255

(***************************************************************************)
(* The policy tree of the configuration: each node is known by its cinfo   *)
(* token; children are kept in priority order (tree.rs).                   *)
(***************************************************************************)
Nodes ==
    [c \in 1..5 |->
        CASE c = 1 -> [path |-> "/",    children |-> <<2, 4>>, recursive |-> FALSE]
          [] c = 2 -> [path |-> "home", children |-> <<3>>,    recursive |-> FALSE]
          [] c = 3 -> [path |-> ".*",   children |-> <<>>,     recursive |-> FALSE]
          [] c = 4 -> [path |-> "root", children |-> <<5>>,    recursive |-> TRUE]
          [] c = 5 -> [path |-> "1",    children |-> <<>>,     recursive |-> FALSE]]

TreeRoot == 1

\* Regex::is_match of an anchored node expression on one path component
regex_is_match(re, part) == re = ".*" \/ re = part

\* Node::child_by_path: the first child whose expression matches; 0 is None
child_by_path(node, part) ==
    LET ch == Nodes[node].children
        hits == {i \in 1..Len(ch) : regex_is_match(Nodes[ch[i]].path, part)}
    IN  IF hits = {} THEN 0
        ELSE ch[CHOOSE i \in hits : \A j \in hits : i <= j]

has_children(node) == Len(Nodes[node].children) > 0

is_recursive(node) == Nodes[node].recursive

\* Config::node_by_cinfo: 0 is None
node_by_cinfo(cinfo) == IF cinfo \in DOMAIN Nodes THEN cinfo ELSE 0

(***************************************************************************)
(* The handlers of the configuration, by event name, in the order they     *)
(* were added (config.rs).  kind tells what the handler body does:         *)
(* "hierarchy" is hierarchy_handler, "update" and "fetch" are custom       *)
(* handlers that await one update / fetch request and then answer.         *)
(***************************************************************************)
EventHandlers ==
    [getfile |->
        << [kind |-> "hierarchy", subject_vs |-> <<255>>, object_vs |-> <<255>>,
            from_object |-> TRUE, answer |-> MedusaAnswer.Allow] >>,
     getprocess |->
        << [kind |-> "update", subject_vs |-> <<1>>, object_vs |-> <<255>>,
            from_object |-> FALSE, answer |-> MedusaAnswer.Allow],
           [kind |-> "fetch", subject_vs |-> <<2>>, object_vs |-> <<1>>,
            from_object |-> FALSE, answer |-> MedusaAnswer.Deny] >>]

bitmap_nbytes == 1

\* a lookup that returns the handlers newest first
handlers_by_event_reversed(handlers, event) ==
    IF event \in DOMAIN handlers
    THEN [i \in 1..Len(handlers[event]) |-> handlers[event][Len(handlers[event]) + 1 - i]]
    ELSE <<>>

\* Config::handlers_by_event: the handlers bound to the name; <<>> is None
handlers_by_event(handlers, event) ==
    IF event \in DOMAIN handlers THEN handlers[event] ELSE <<>>

\* an applicability test that looks at the subject only
is_applicable_subject_only(h, subject_vs, object_vs) ==
    bitmap_all(h.subject_vs)
    \/ bitmap_and(h.subject_vs, SubSeq(subject_vs, 1, bitmap_nbytes)) = h.subject_vs

\* EventHandler::is_applicable; object_vs = <<>> stands for an absent object
is_applicable(h, subject_vs, object_vs) ==
    LET sub_ok ==
            bitmap_all(h.subject_vs)
            \/ bitmap_and(h.subject_vs, SubSeq(subject_vs, 1, bitmap_nbytes)) = h.subject_vs
        obj_ok ==
            bitmap_all(h.object_vs)
            \/ object_vs = <<>>
            \/ bitmap_and(h.object_vs, SubSeq(object_vs, 1, bitmap_nbytes)) = h.object_vs
    IN  sub_ok /\ obj_ok

\* the handler chain of the per-event task: position of the first applicable
\* handler in the list, 0 when there is none
first_applicable(list, subject_vs, object_vs) ==
    LET hits == {i \in 1..Len(list) : is_applicable(list[i], subject_vs, object_vs)}
    IN  IF hits = {} THEN 0 ELSE CHOOSE i \in hits : \A j \in hits : i <= j

\* a hierarchy walk that leaves the subject where it is when no child covers
\* the path
hierarchy_node_stay(h, subject_cinfo, same_class, object_cinfo, path) ==
    LET cinfo == IF subject_cinfo = 0 /\ h.from_object /\ same_class /\ path # "/"
                 THEN object_cinfo ELSE subject_cinfo
        node == IF cinfo = 0 THEN TreeRoot ELSE node_by_cinfo(cinfo)
    IN  IF cinfo # 0 /\ child_by_path(node, path) # 0
        THEN child_by_path(node, path) ELSE node

\* hierarchy_handler up to its answer: the node the subject enters (0 when
\* the path is not covered by the tree and the handler returns Deny)
hierarchy_node(h, subject_cinfo, same_class, object_cinfo, path) ==
    LET cinfo == IF subject_cinfo = 0 /\ h.from_object /\ same_class /\ path # "/"
                 THEN object_cinfo ELSE subject_cinfo
        node == IF cinfo = 0 THEN TreeRoot ELSE node_by_cinfo(cinfo)
    IN  IF cinfo # 0 THEN child_by_path(node, path) ELSE node

(***************************************************************************)
(* The kernel side.  It announces classes and event types in this order,   *)
(* each event type after the classes it names, and may send authorization  *)
(* requests of an event type once it has announced the type.               *)
(***************************************************************************)
KernelDefs ==
    << [cmd |-> "kclassdef", kclassid |-> 1, name |-> "file",
        attributes |-> <<"vs", "med_oact", "o_cinfo">>],
       [cmd |-> "kevtypedef", evid |-> 11, name |-> "getfile",
        ev_sub |-> 1, ev_obj |-> 1, ev_name |-> <<"file", "parent">>],
       [cmd |-> "kclassdef", kclassid |-> 2, name |-> "process",
        attributes |-> <<"vs", "med_oact", "med_sact", "o_cinfo">>],
       [cmd |-> "kevtypedef", evid |-> 12, name |-> "getprocess",
        ev_sub |-> 2, ev_obj |-> 2, ev_name |-> <<"process", "parent">>],
       [cmd |-> "kevtypedef", evid |-> 13, name |-> "setuid",
        ev_sub |-> 2, ev_obj |-> 2, ev_name |-> <<"process", "process">>] >>

\* an absent object of an authorization request
NoObject == [class |-> 0, vs |-> <<>>, cinfo |-> 0]

\* the objects an authorization request of the event type can carry:
\* subject, object and the path attribute of the event
AuthRequests(evid) ==
    CASE evid = 11 ->
            {[subject |-> [class |-> 1, vs |-> <<0>>, cinfo |-> 0],
              object |-> [class |-> 1, vs |-> <<0>>, cinfo |-> 1],
              path |-> p] : p \in {"home", "zz"}}
      [] evid = 12 ->
            {[subject |-> [class |-> 2, vs |-> <<b>>, cinfo |-> 0],
              object |-> [class |-> 2, vs |-> <<1>>, cinfo |-> 0],
              path |-> ""] : b \in {3, 2}}
      [] OTHER ->
            {[subject |-> [class |-> 2, vs |-> <<0>>, cinfo |-> 0],
              object |-> NoObject, path |-> ""]}

\* the request id the kernel gives its n-th authorization request
KernelRequestId(n) == 1000 + n

(***************************************************************************)
(* Connection::new: the outcome of reading the greeting and the version.   *)
(***************************************************************************)
Connection_new(g, v) ==
    IF g = GREETING_NATIVE_BYTE_ORDER THEN "run"
    ELSE IF g = GREETING_REVERSED_BYTE_ORDER THEN "unimplemented"
    ELSE "unknown byte order"

(***************************************************************************)
(* Schema registration (register_kclass_def, register_kevtype_def).        *)
(***************************************************************************)
\* a registration that fills the name index only
register_kclass_def_index_only(ctx, def) ==
    [ctx EXCEPT !.class_id = Insert(@, def.name, def.kclassid)]

register_kclass_def(ctx, def) ==
    [ctx EXCEPT !.class_id = Insert(@, def.name, def.kclassid),
                !.classes = Insert(@, def.kclassid,
                                   [name |-> def.name, attributes |-> def.attributes])]

\* a registration that keeps the object side as it was sent
collapse_never(def) == def

\* an event type whose subject and object are the same class under the same
\* name has no object
collapse(def) ==
    IF def.ev_sub = def.ev_obj /\ def.ev_name[1] = def.ev_name[2]
    THEN [def EXCEPT !.ev_obj = 0, !.ev_name[2] = ""]
    ELSE def

register_kevtype_def(ctx, def) ==
    IF def.ev_sub \notin DOMAIN ctx.classes THEN [ctx EXCEPT !.failure = "Unknown subject type"]
    ELSE IF def.ev_obj \notin DOMAIN ctx.classes THEN [ctx EXCEPT !.failure = "Unknown object type"]
    ELSE [ctx EXCEPT !.evtypes = Insert(@, def.evid,
            [name |-> collapse(def).name, ev_sub |-> collapse(def).ev_sub,
             ev_obj |-> collapse(def).ev_obj, ev_name |-> collapse(def).ev_name])]

\* acquire_auth_req_data: the failure it ends with, "" when it returns the data
acquire_auth_req_data(ctx, evid) ==
    IF evid \notin DOMAIN ctx.evtypes THEN "Unknown access type"
    ELSE IF ctx.evtypes[evid].ev_sub \notin DOMAIN ctx.classes THEN "Unknown subject type"
    ELSE IF ctx.evtypes[evid].ev_obj # 0 /\ ctx.evtypes[evid].ev_obj \notin DOMAIN ctx.classes
         THEN "Unknown object type"
    ELSE ""

(***************************************************************************)
(* The attributes of an object (MedusaAttributes, MedusaClass).            *)
(***************************************************************************)
\* the attributes the mutators of MedusaClass work on, by name: the virtual
\* space bitmaps, the monitoring bitmaps and the cinfo token
VsAttrs == {"vs", "vsr", "vsw", "vss"}

BitmapAttrs == VsAttrs \cup {"med_oact", "med_sact"}

MEDUSA_OCINFO_ATTR_NAME == "o_cinfo"

AttrNames == BitmapAttrs \cup {MEDUSA_OCINFO_ATTR_NAME}

\* usize::to_bytes: eight bytes, least significant first
usize_to_bytes(c) ==
    [i \in 1..8 |-> IF i = 1 THEN c % 256 ELSE IF i = 2 THEN (c \div 256) % 256 ELSE 0]

\* the data of an attribute as set_from_raw leaves it for an object whose
\* bytes are all zero: as long as its descriptor says
ZeroData(name) == IF name = MEDUSA_OCINFO_ATTR_NAME THEN usize_to_bytes(0) ELSE <<0>>

\* an object of a class whose attributes in ro carry the read-only modifier
NewObject(ro) ==
    [name \in AttrNames |-> [read_only |-> name \in ro, data |-> ZeroData(name)]]

Pow2(k) == IF k = 0 THEN 1 ELSE IF k = 1 THEN 2 ELSE IF k = 2 THEN 4
           ELSE IF k = 3 THEN 8 ELSE IF k = 4 THEN 16 ELSE IF k = 5 THEN 32
           ELSE IF k = 6 THEN 64 ELSE 128

\* a set_bit that counts the bits of a byte from the most significant one
set_bit_msb_first(vec, n) ==
    [vec EXCEPT ![n \div 8 + 1] =
        IF (@ \div Pow2(7 - (n % 8))) % 2 = 1 THEN @ ELSE @ + Pow2(7 - (n % 8))]

\* bitmap::set_bit, bitmap::clear_bit, bitmap::clear_all
set_bit(vec, n) ==
    [vec EXCEPT ![n \div 8 + 1] =
        IF (@ \div Pow2(n % 8)) % 2 = 1 THEN @ ELSE @ + Pow2(n % 8)]

clear_bit(vec, n) ==
    [vec EXCEPT ![n \div 8 + 1] =
        IF (@ \div Pow2(n % 8)) % 2 = 1 THEN @ - Pow2(n % 8) ELSE @]

clear_all(vec) == [i \in 1..Len(vec) |-> 0]

\* MedusaAttributes::set without the read-only test
attributes_set_unguarded(attributes, attr_name, data) ==
    IF attr_name \notin DOMAIN attributes
    THEN [attributes |-> attributes, result |-> "UnknownAttribute"]
    ELSE [attributes |-> [attributes EXCEPT ![attr_name].data = data], result |-> "Ok"]

\* MedusaAttributes::set: the attributes afterwards and what it returns
attributes_set(attributes, attr_name, data) ==
    IF attr_name \notin DOMAIN attributes
    THEN [attributes |-> attributes, result |-> "UnknownAttribute"]
    ELSE IF attributes[attr_name].read_only
    THEN [attributes |-> attributes, result |-> "ModifyReadOnlyError"]
    ELSE [attributes |-> [attributes EXCEPT ![attr_name].data = data], result |-> "Ok"]

\* MedusaAttributes::get_mut: whether the caller gets the data to write to
attributes_get_mut(attributes, attr_name) ==
    IF attr_name \notin DOMAIN attributes THEN "UnknownAttribute" ELSE "Ok"

\* add_vs, add_vs_read, ..., add_object_act, add_subject_act
add_bit(attributes, attr_name, n) ==
    IF attributes_get_mut(attributes, attr_name) # "Ok"
    THEN [attributes |-> attributes, result |-> attributes_get_mut(attributes, attr_name)]
    ELSE [attributes |-> [attributes EXCEPT ![attr_name].data = set_bit(@, n)],
          result |-> "Ok"]

\* remove_vs, remove_vs_read, ..., remove_object_act, remove_subject_act
remove_bit(attributes, attr_name, n) ==
    IF attributes_get_mut(attributes, attr_name) # "Ok"
    THEN [attributes |-> attributes, result |-> attributes_get_mut(attributes, attr_name)]
    ELSE [attributes |-> [attributes EXCEPT ![attr_name].data = clear_bit(@, n)],
          result |-> "Ok"]

\* clear_vs, clear_vs_read, ..., clear_object_act, clear_subject_act
clear_bits(attributes, attr_name) ==
    IF attributes_get_mut(attributes, attr_name) # "Ok"
    THEN [attributes |-> attributes, result |-> attributes_get_mut(attributes, attr_name)]
    ELSE [attributes |-> [attributes EXCEPT ![attr_name].data = clear_all(@)],
          result |-> "Ok"]

\* MedusaClass::set_attribute: the value's bytes go to MedusaAttributes::set
set_attribute(attributes, attr_name, bytes) ==
    attributes_set(attributes, attr_name, bytes)

\* set_object_cinfo, through set_attribute
set_object_cinfo(attributes, cinfo) ==
    set_attribute(attributes, MEDUSA_OCINFO_ATTR_NAME, usize_to_bytes(cinfo))

\* no operation has been applied to the object yet
NoCall == [op |-> "none", name |-> "", data |-> <<>>]

(***************************************************************************)
(* State of one connection.                                                *)
(***************************************************************************)
VARIABLES
    conn,             \* "new", "run", or how the reader ended
    greeting,         \* the greeting read by Connection::new
    version,          \* the protocol version read by Connection::new
    debug_assertions, \* whether the build has debug assertions
    ctx,              \* the shared Context
    kdefs,            \* how many of KernelDefs the kernel has sent
    tasks,            \* the per-event tasks, in spawn order
    queue,            \* the writer's channel
    wstate,           \* the writer task: "idle", "writing", "partial", "stopped"
    wbuf,             \* what is left to write of the writer's buffer
    device,           \* everything written to the device, in order
    enq,              \* history of the writer's channel: every buffer sent
    answered,         \* request ids the kernel has answered
    kclass,           \* the attributes of one object held by a handler
    result,           \* what the last operation on the object returned
    call              \* the last operation applied and its arguments

conn_vars == <<conn, greeting, version, debug_assertions, ctx, kdefs, tasks,
               queue, wstate, wbuf, device, enq, answered>>

attr_vars == <<kclass, result, call>>

vars == <<conn_vars, attr_vars>>

\* Context::new
Context_new ==
    [classes |-> EmptyMap, class_id |-> EmptyMap, evtypes |-> EmptyMap,
     fetch_requests |-> EmptyMap, update_requests |-> EmptyMap,
     request_id_cn |-> REQUEST_ID_START, failure |-> ""]

Init ==
    /\ conn = "run"
    /\ greeting = GREETING_NATIVE_BYTE_ORDER
    /\ version = PROTOCOL_VERSION
    /\ debug_assertions = FALSE
    /\ ctx = Context_new
    /\ kdefs = 0
    /\ tasks = <<>>
    /\ queue = <<>>
    /\ wstate = "idle"
    /\ wbuf = <<>>
    /\ device = <<>>
    /\ enq = <<>>
    /\ answered = {}
    /\ kclass = NewObject({})
    /\ result = "Ok"
    /\ call = NoCall

\* the reader takes a class definition off the device
ReadClassDef ==
    /\ conn = "run"
    /\ kdefs < Len(KernelDefs)
    /\ KernelDefs[kdefs + 1].cmd = "kclassdef"
    /\ ctx' = register_kclass_def(ctx, KernelDefs[kdefs + 1])
    /\ kdefs' = kdefs + 1
    /\ UNCHANGED <<attr_vars, conn, greeting, version, debug_assertions, tasks, queue,
                   wstate, wbuf, device, enq, answered>>

\* the reader takes an event type definition off the device
ReadEvtypeDef ==
    /\ conn = "run"
    /\ kdefs < Len(KernelDefs)
    /\ KernelDefs[kdefs + 1].cmd = "kevtypedef"
    /\ ctx' = register_kevtype_def(ctx, KernelDefs[kdefs + 1])
    /\ conn' = IF ctx'.failure # "" THEN "panic" ELSE conn
    /\ kdefs' = kdefs + 1
    /\ UNCHANGED <<attr_vars, greeting, version, debug_assertions, tasks, queue,
                   wstate, wbuf, device, enq, answered>>

\* event types the kernel has announced
Announced == {KernelDefs[i].evid : i \in {j \in 1..kdefs : KernelDefs[j].cmd = "kevtypedef"}}

\* a fresh per-event task holding the data of its authorization request
SpawnTask(request_id, evid, req) ==
    [request_id |-> request_id, evid |-> evid, pc |-> "spawned",
     subject |-> req.subject, object |-> req.object, path |-> req.path,
     handler |-> 0, op |-> "", id |-> 0, req_type |-> "",
     class_id |-> req.subject.class,
     data |-> 0,
     answer |-> 0, inbox |-> <<>>, received |-> 0]

\* the reader takes an authorization request off the device and spawns the
\* task that handles it
ReadAuthRequest ==
    /\ conn = "run"
    /\ Len(tasks) < MaxEvents
    /\ \E evid \in Announced : \E req \in AuthRequests(evid) :
        LET failure == acquire_auth_req_data(ctx, evid)
        IN  IF failure # ""
            THEN /\ ctx' = [ctx EXCEPT !.failure = failure]
                 /\ conn' = "panic"
                 /\ tasks' = tasks
            ELSE /\ tasks' = Append(tasks, SpawnTask(KernelRequestId(Len(tasks)), evid, req))
                 /\ UNCHANGED <<attr_vars, ctx, conn>>
    /\ UNCHANGED <<attr_vars, greeting, version, debug_assertions, kdefs, queue,
                   wstate, wbuf, device, enq, answered>>

(***************************************************************************)
(* Context operations used by the tasks.                                   *)
(***************************************************************************)
\* a counter that is read but not advanced
get_new_request_id_load(cn) == [id |-> cn, cn |-> cn]

\* fetch_add(1) on the shared counter: the id returned and the new counter
get_new_request_id(cn) == [id |-> cn, cn |-> cn + 1]

\* a registration that is lost
insert_pending_lost(table, id, sender) == table

\* a registration of the first task's channel instead of the caller's
insert_pending_first(table, id, sender) == Insert(table, id, 1)

\* a registration under the id the next request will get
insert_pending_next_id(table, id, sender) == Insert(table, id + 1, sender)

\* registering the sender of the task's answer channel under the request id
insert_pending(table, id, sender) == Insert(table, id, sender)

\* a send that jumps the queue
Writer_write_front(q, buf) == <<buf>> \o q

\* Writer::write: the buffer is sent on the writer's channel
Writer_write(q, buf) == Append(q, buf)

\* a receive that loses the buffer behind the one it takes
recv_losing(q) ==
    [data |-> Head(q), rest |-> IF Len(q) > 1 THEN Tail(Tail(q)) ELSE Tail(q)]

\* a receive that takes the newest buffer of the channel
recv_newest(q) == [data |-> q[Len(q)], rest |-> SubSeq(q, 1, Len(q) - 1)]

\* receiver.recv() on a channel that holds a buffer: the oldest one
recv(q) == [data |-> Head(q), rest |-> Tail(q)]

\* the request a task is about to write
RequestOf(tk) == MedusaRequest_to_vec(tk.req_type, tk.class_id, tk.id, tk.data)

\* what a task keeps once its handler has been chosen
Handled(tk, i) ==
    [tk EXCEPT !.handler = i, !.subject = NoObject, !.object = NoObject, !.path = ""]

ChosenHandler(tk) ==
    first_applicable(handlers_by_event(EventHandlers, ctx.evtypes[tk.evid].name),
                     tk.subject.vs, tk.object.vs)

HandlerOf(tk) ==
    handlers_by_event(EventHandlers, ctx.evtypes[tk.evid].name)[ChosenHandler(tk)]

(***************************************************************************)
(* The per-event task.                                                     *)
(***************************************************************************)
\* the task gives its decision to the writer and ends
Decide(t, tk, status) ==
    /\ queue' = Writer_write(queue, DecisionAnswer_to_vec(tk.request_id, status))
    /\ enq' = Writer_write(enq, DecisionAnswer_to_vec(tk.request_id, status))
    /\ tasks' = [tasks EXCEPT ![t] = [tk EXCEPT !.pc = "done", !.answer = status]]

\* no handler is bound to the event or none is applicable: default answer
TaskDefault(t) ==
    /\ conn = "run"
    /\ tasks[t].pc = "spawned"
    /\ ChosenHandler(tasks[t]) = 0
    /\ Decide(t, Handled(tasks[t], 0), DEFAULT_ANSWER(debug_assertions))
    /\ UNCHANGED <<attr_vars, conn, greeting, version, debug_assertions, ctx, kdefs,
                   wstate, wbuf, device, answered>>

\* hierarchy_handler: Deny when the path is not covered, else the subject
\* enters the node and update_object_no_wait takes a request id
TaskHierarchy(t) ==
    /\ conn = "run"
    /\ tasks[t].pc = "spawned"
    /\ ChosenHandler(tasks[t]) # 0
    /\ HandlerOf(tasks[t]).kind = "hierarchy"
    /\ LET tk == tasks[t]
           node == hierarchy_node(HandlerOf(tk), tk.subject.cinfo,
                                  tk.subject.class = tk.object.class,
                                  tk.object.cinfo, tk.path)
           new == get_new_request_id(ctx.request_id_cn)
       IN  IF node = 0
           THEN /\ Decide(t, Handled(tk, ChosenHandler(tk)), MedusaAnswer.Deny)
                /\ ctx' = ctx
           ELSE /\ UNCHANGED <<attr_vars, queue, enq>>
                /\ tasks' = [tasks EXCEPT ![t] =
                        [Handled(@, ChosenHandler(@)) EXCEPT
                            !.pc = "nw_write", !.answer = MedusaAnswer.Allow,
                            !.op = "update_object_no_wait",
                            !.id = new.id, !.req_type = "Update", !.data = node]]
                /\ ctx' = [ctx EXCEPT !.request_id_cn = new.cn]
    /\ UNCHANGED <<attr_vars, conn, greeting, version, debug_assertions, kdefs,
                   wstate, wbuf, device, answered>>

\* update_request / fetch_request: the request takes a new id and the answer
\* channel is registered under it
TaskRequest(t) ==
    /\ conn = "run"
    /\ tasks[t].pc = "spawned"
    /\ ChosenHandler(tasks[t]) # 0
    /\ HandlerOf(tasks[t]).kind \in {"update", "fetch"}
    /\ LET new == get_new_request_id(ctx.request_id_cn)
           fetch == HandlerOf(tasks[t]).kind = "fetch"
       IN  /\ tasks' = [tasks EXCEPT ![t] =
                    [Handled(@, ChosenHandler(@)) EXCEPT
                        !.pc = "rq_write", !.answer = HandlerOf(tasks[t]).answer,
                        !.op = IF fetch THEN "fetch_request" ELSE "update_request",
                        !.id = new.id,
                        !.req_type = IF fetch THEN "Fetch" ELSE "Update"]]
           /\ ctx' = IF fetch
                     THEN [ctx EXCEPT !.request_id_cn = new.cn,
                                      !.fetch_requests = insert_pending(@, new.id, t)]
                     ELSE [ctx EXCEPT !.request_id_cn = new.cn,
                                      !.update_requests = insert_pending(@, new.id, t)]
    /\ UNCHANGED <<attr_vars, conn, greeting, version, debug_assertions, kdefs, queue,
                   wstate, wbuf, device, enq, answered>>

\* the request is given to the writer; update_object_no_wait is over, the
\* other operations go on to await the answer
TaskWrite(t) ==
    /\ conn = "run"
    /\ tasks[t].pc \in {"nw_write", "rq_write"}
    /\ queue' = Writer_write(queue, RequestOf(tasks[t]))
    /\ enq' = Writer_write(enq, RequestOf(tasks[t]))
    /\ tasks' = [tasks EXCEPT ![t].pc = IF @ = "nw_write" THEN "decide" ELSE "await"]
    /\ UNCHANGED <<attr_vars, conn, greeting, version, debug_assertions, ctx, kdefs,
                   wstate, wbuf, device, answered>>

\* receiver.recv().await returns the answer and the handler returns
TaskResume(t) ==
    /\ conn = "run"
    /\ tasks[t].pc = "await"
    /\ tasks[t].inbox # <<>>
    /\ Decide(t, [tasks[t] EXCEPT !.inbox = Tail(@), !.received = @ + 1], tasks[t].answer)
    /\ UNCHANGED <<attr_vars, conn, greeting, version, debug_assertions, ctx, kdefs,
                   wstate, wbuf, device, answered>>

\* hierarchy_handler returns after update_object_no_wait
TaskDecide(t) ==
    /\ conn = "run"
    /\ tasks[t].pc = "decide"
    /\ Decide(t, tasks[t], tasks[t].answer)
    /\ UNCHANGED <<attr_vars, conn, greeting, version, debug_assertions, ctx, kdefs,
                   wstate, wbuf, device, answered>>

(***************************************************************************)
(* Answers of the kernel.  The kernel answers a request once it has read   *)
(* it in full from the device, and answers it once.                        *)
(***************************************************************************)
\* ids of the requests of the given kind the kernel has read and not answered
Answerable(request_word) ==
    {ParseStream(device)[i][3] :
        i \in {j \in 1..Len(ParseStream(device)) :
                  ParseStream(device)[j][1] = request_word}} \ answered

\* a dispatch that gives up the oldest entry when nobody waits for the answer
Dispatch_oldest(table, id) ==
    IF id \in DOMAIN table \/ DOMAIN table = {} THEN Remove(table, id)
    ELSE Remove(table, CHOOSE k \in DOMAIN table : \A other \in DOMAIN table : k <= other)

\* answer dispatch of the reader: the pending entry is removed and the answer
\* sent on its channel; an answer nobody waits for is dropped
Dispatch(table, id) == Remove(table, id)

\* a delivery that wakes every task when an awaited answer arrives
Deliver_to_all(tks, table, id) ==
    IF id \in DOMAIN table
    THEN [u \in 1..Len(tks) |-> [tks[u] EXCEPT !.inbox = Append(@, id)]]
    ELSE tks

Deliver(tks, table, id) ==
    IF id \in DOMAIN table
    THEN [tks EXCEPT ![table[id]].inbox = Append(@, id)]
    ELSE tks

ReadUpdateAnswer ==
    /\ conn = "run"
    /\ \E id \in Answerable(MEDUSA_COMM_UPDATE_REQUEST) :
        /\ tasks' = Deliver(tasks, ctx.update_requests, id)
        /\ ctx' = [ctx EXCEPT !.update_requests = Dispatch(@, id)]
        /\ answered' = answered \cup {id}
    /\ UNCHANGED <<attr_vars, conn, greeting, version, debug_assertions, kdefs, queue,
                   wstate, wbuf, device, enq>>

ReadFetchAnswer ==
    /\ conn = "run"
    /\ \E id \in Answerable(MEDUSA_COMM_FETCH_REQUEST) :
        /\ tasks' = Deliver(tasks, ctx.fetch_requests, id)
        /\ ctx' = [ctx EXCEPT !.fetch_requests = Dispatch(@, id)]
        /\ answered' = answered \cup {id}
    /\ UNCHANGED <<attr_vars, conn, greeting, version, debug_assertions, kdefs, queue,
                   wstate, wbuf, device, enq>>

(***************************************************************************)
(* The writer task (Writer::new): the oldest buffer of the channel is      *)
(* received and written to the device in full.                             *)
(***************************************************************************)
WriterStep ==
    /\ queue # <<>>
    /\ device' = device \o recv(queue).data
    /\ queue' = recv(queue).rest
    /\ UNCHANGED <<attr_vars, conn, greeting, version, debug_assertions, ctx, kdefs, tasks,
                   wstate, wbuf, enq, answered>>

Next ==
    \/ ReadClassDef
    \/ ReadEvtypeDef
    \/ ReadAuthRequest
    \/ ReadUpdateAnswer
    \/ ReadFetchAnswer
    \/ \E t \in 1..Len(tasks) : TaskDefault(t)
    \/ \E t \in 1..Len(tasks) : TaskHierarchy(t)
    \/ \E t \in 1..Len(tasks) : TaskRequest(t)
    \/ \E t \in 1..Len(tasks) : TaskWrite(t)
    \/ \E t \in 1..Len(tasks) : TaskResume(t)
    \/ \E t \in 1..Len(tasks) : TaskDecide(t)
    \/ WriterStep

Spec == Init /\ [][Next]_vars

(***************************************************************************)
(* Properties of the request correlation.                                  *)
(***************************************************************************)
TaskIds == 1..Len(tasks)

PendingIds == DOMAIN ctx.fetch_requests \cup DOMAIN ctx.update_requests

\* the pending table an operation registers in
TableOf(op) ==
    IF op = "fetch_request" THEN ctx.fetch_requests ELSE ctx.update_requests

OtherTableOf(op) ==
    IF op = "fetch_request" THEN ctx.update_requests ELSE ctx.fetch_requests

\* the task has issued a request whose answer has not arrived
Outstanding(t) == tasks[t].id # 0 /\ tasks[t].id \notin answered

C2_DeliveredOnceToIssuer ==
    [][\A id \in answered' \ answered : \A t \in TaskIds :
          (tasks[t].id = id /\ tasks[t].pc = "await") =>
              /\ tasks'[t].inbox = Append(tasks[t].inbox, id)
              /\ \A u \in TaskIds \ {t} : tasks'[u].inbox = tasks[u].inbox
              /\ id \notin DOMAIN ctx'.fetch_requests \cup DOMAIN ctx'.update_requests
              /\ \A u \in TaskIds : tasks'[u].received + Len(tasks'[u].inbox) <= 1]_vars

\* two tasks have each consumed the answer to their own request
C2_Witness ==
    \E t, u \in TaskIds :
        /\ t # u
        /\ tasks[t].received = 1 /\ tasks[u].received = 1
        /\ tasks[t].op = "fetch_request" /\ tasks[u].op = "update_request"
        /\ PendingIds = {}

\* ids the tasks have got from get_new_request_id
IssuedIds == {tasks[t].id : t \in {u \in TaskIds : tasks[u].id # 0}}

\* C3: the ids returned by get_new_request_id are 111, 112, ... in one
\* sequence shared by fetch and update requests; no two calls return the
\* same id, no id is in both pending tables, no id is written twice.
C3_UniqueIds ==
    /\ IssuedIds = REQUEST_ID_START..(ctx.request_id_cn - 1)
    /\ \A t, u \in TaskIds : (t # u /\ tasks[t].id # 0) => tasks[t].id # tasks[u].id
    /\ DOMAIN ctx.fetch_requests \cap DOMAIN ctx.update_requests = {}
    /\ \A i, j \in 1..Len(enq) :
        (i # j /\ IsRequest(enq[i]) /\ IsRequest(enq[j])) => enq[i][3] # enq[j][3]

\* a fetch and an update request with consecutive ids are pending together
C3_Witness ==
    \E i \in DOMAIN ctx.fetch_requests, j \in DOMAIN ctx.update_requests :
        /\ {i, j} = {REQUEST_ID_START, REQUEST_ID_START + 1}
        /\ ctx.request_id_cn = REQUEST_ID_START + 2

(***************************************************************************)
(* Properties of the decisions and of the schema.                          *)
(***************************************************************************)
DecisionsFor(request_id) ==
    {i \in 1..Len(enq) : IsDecision(enq[i]) /\ enq[i][2] = request_id}

C6_SchemaBeforeEvents ==
    /\ ctx.failure = ""
    /\ \A i \in 1..kdefs :
        LET def == KernelDefs[i]
        IN  IF def.cmd = "kclassdef"
            THEN /\ def.kclassid \in DOMAIN ctx.classes
                 /\ ctx.classes[def.kclassid].name = def.name
            ELSE /\ def.evid \in DOMAIN ctx.evtypes
                 /\ ctx.evtypes[def.evid].name = def.name
                 /\ ctx.evtypes[def.evid].ev_sub = def.ev_sub
    /\ \A t \in TaskIds :
        /\ tasks[t].evid \in DOMAIN ctx.evtypes
        /\ ctx.evtypes[tasks[t].evid].ev_sub \in DOMAIN ctx.classes
        /\ tasks[t].class_id \in DOMAIN ctx.classes
        /\ ctx.evtypes[tasks[t].evid].ev_obj # 0
            => ctx.evtypes[tasks[t].evid].ev_obj \in DOMAIN ctx.classes

\* all definitions are registered; an event of the first event type has been
\* handled and one of the last event type dispatched
C6_Witness ==
    /\ kdefs = Len(KernelDefs)
    /\ Len(tasks) = 2
    /\ tasks[1].evid = 11 /\ tasks[1].pc # "spawned"
    /\ tasks[2].evid = 13

\* the handler of a task that has chosen one
KindOf(t) ==
    IF tasks[t].handler = 0 THEN "default"
    ELSE EventHandlers[ctx.evtypes[tasks[t].evid].name][tasks[t].handler].kind

\* an update request for the class is enqueued before the decision of t
UpdateBeforeDecision(t) ==
    \E i, j \in 1..Len(enq) :
        /\ i < j
        /\ enq[i][1] = MEDUSA_COMM_UPDATE_REQUEST
        /\ enq[i][2] = tasks[t].class_id
        /\ IsDecision(enq[j]) /\ enq[j][2] = tasks[t].request_id

\* C8 as stated: whenever the hierarchy handler has handled an event, an
\* update request for the subject's class precedes the decision.
C8_AlwaysUpdateBeforeDecision ==
    \A t \in TaskIds :
        (tasks[t].pc = "done" /\ KindOf(t) = "hierarchy") => UpdateBeforeDecision(t)

\* C8 amended: when the hierarchy handler enters the subject into a node
\* (it does not answer Deny) or a handler enters it with an awaited update,
\* the task's update request for the subject's class is enqueued before its
\* decision; a hierarchy handler that answers Deny has issued no request.
C8_UpdateBeforeDecision ==
    \A t \in TaskIds :
        /\ (tasks[t].pc = "done"
            /\ \/ KindOf(t) = "hierarchy" /\ tasks[t].answer # MedusaAnswer.Deny
               \/ KindOf(t) = "update")
            => \E i, j \in 1..Len(enq) :
                /\ i < j
                /\ enq[i] = MedusaRequest_to_vec("Update", tasks[t].class_id,
                                                 tasks[t].id, tasks[t].data)
                /\ tasks[t].id # 0
                /\ IsDecision(enq[j]) /\ enq[j][2] = tasks[t].request_id
        /\ (KindOf(t) = "hierarchy" /\ tasks[t].answer = MedusaAnswer.Deny
            /\ tasks[t].pc = "done") => tasks[t].id = 0

\* one event has entered a node and another was denied, both decided
C8_Witness ==
    \E t, u \in TaskIds :
        /\ tasks[t].pc = "done" /\ tasks[u].pc = "done"
        /\ KindOf(t) = "hierarchy" /\ KindOf(u) = "hierarchy"
        /\ tasks[t].answer = MedusaAnswer.Allow /\ tasks[t].id # 0
        /\ tasks[u].answer = MedusaAnswer.Deny

(***************************************************************************)
(* The writer task on its own (Writer::new, Writer::write): any task may   *)
(* send a buffer, the device may take a buffer in parts, and the shutdown  *)
(* notification may arrive at any time.                                    *)
(***************************************************************************)
WriterBuffers ==
    { DecisionAnswer_to_vec(1000, MedusaAnswer.Allow),
      DecisionAnswer_to_vec(1001, MedusaAnswer.Deny),
      MedusaRequest_to_vec("Update", 1, REQUEST_ID_START, 2) }

\* Writer::write while the writer task lives
WriterSend ==
    /\ wstate # "stopped"
    /\ conn \in {"run", "closed"}
    /\ Len(enq) < MaxBufs
    /\ \E buf \in WriterBuffers :
        /\ queue' = Writer_write(queue, buf)
        /\ enq' = Writer_write(enq, buf)
    /\ UNCHANGED <<attr_vars, conn, greeting, version, debug_assertions, ctx, kdefs, tasks,
                   wstate, wbuf, device, answered>>

\* Writer::write after the writer task has ended: the send fails and the
\* caller panics with "writer is disconnected"
WriterSendFails ==
    /\ wstate = "stopped"
    /\ conn = "closed"
    /\ Len(enq) < MaxBufs
    /\ conn' = "panic"
    /\ UNCHANGED <<attr_vars, greeting, version, debug_assertions, ctx, kdefs, tasks, queue,
                   wstate, wbuf, device, enq, answered>>

\* the select takes the receive arm: the oldest buffer is handed over
WriterRecv ==
    /\ wstate = "idle"
    /\ queue # <<>>
    /\ wbuf' = recv(queue).data
    /\ queue' = recv(queue).rest
    /\ wstate' = "writing"
    /\ UNCHANGED <<attr_vars, conn, greeting, version, debug_assertions, ctx, kdefs, tasks,
                   device, enq, answered>>

\* write_all: the device takes some more of the buffer, until it has it all
WriterWrite ==
    /\ wstate = "writing"
    /\ \E k \in 1..Len(wbuf) :
        /\ device' = device \o SubSeq(wbuf, 1, k)
        /\ wbuf' = SubSeq(wbuf, k + 1, Len(wbuf))
        /\ wstate' = IF k = Len(wbuf) THEN "idle" ELSE "writing"
    /\ UNCHANGED <<attr_vars, conn, greeting, version, debug_assertions, ctx, kdefs, tasks,
                   queue, enq, answered>>

\* the shutdown signal is broadcast
WriterShutdown ==
    /\ conn = "run"
    /\ conn' = "closed"
    /\ UNCHANGED <<attr_vars, greeting, version, debug_assertions, ctx, kdefs, tasks, queue,
                   wstate, wbuf, device, enq, answered>>

\* the select takes the shutdown arm: the loop ends between two buffers
WriterStop ==
    /\ wstate = "idle"
    /\ conn = "closed"
    /\ wstate' = "stopped"
    /\ UNCHANGED <<attr_vars, conn, greeting, version, debug_assertions, ctx, kdefs, tasks,
                   queue, wbuf, device, enq, answered>>

NextWriter ==
    \/ WriterSend
    \/ WriterSendFails
    \/ WriterRecv
    \/ WriterWrite
    \/ WriterShutdown
    \/ WriterStop

SpecWriter == Init /\ [][NextWriter]_vars

IsPrefix(a, b) == Len(a) <= Len(b) /\ a = SubSeq(b, 1, Len(a))

\* C7: what the device has received is a prefix of the buffers in the order
\* they were given to Writer::write, whole buffers first to last with at
\* most the newest of them unfinished.
C7_WrittenInEnqueueOrder ==
    /\ IsPrefix(device, Flatten(enq))
    /\ IsPrefix(ParseStream(device), enq)
    /\ Len(device) - Len(Flatten(ParseStream(device))) > 0 => wstate = "writing"

\* three different buffers have reached the device in full and in order,
\* on a connection that has been shut down
C7_Witness ==
    /\ Len(enq) = 3
    /\ Cardinality({enq[i] : i \in 1..3}) = 3
    /\ device = Flatten(enq)
    /\ conn = "closed"

(***************************************************************************)
(* Connection setup on its own (Connection::new): the peer has put a       *)
(* greeting and a version on the device; the server reads the greeting,    *)
(* then the version, and then starts taking schema definitions.            *)
(***************************************************************************)
SetupGreetings ==
    { GREETING_NATIVE_BYTE_ORDER, GREETING_REVERSED_BYTE_ORDER,
      <<0, 0>>, <<0, 1>>, <<1711308378, 0>> }

InitSetup ==
    /\ conn = "new"
    /\ greeting \in SetupGreetings
    /\ version \in 0..MaxVersion
    /\ debug_assertions = FALSE
    /\ ctx = Context_new
    /\ kdefs = 0
    /\ tasks = <<>>
    /\ queue = <<>>
    /\ wstate = "idle"
    /\ wbuf = <<>>
    /\ device = <<>>
    /\ enq = <<>>
    /\ answered = {}
    /\ kclass = NewObject({})
    /\ result = "Ok"
    /\ call = NoCall

\* channel.read_u64() of the greeting and the match on it
ReadGreeting ==
    /\ conn = "new"
    /\ conn' = IF Connection_new(greeting, version) = "run"
               THEN "greeted" ELSE Connection_new(greeting, version)
    /\ UNCHANGED <<attr_vars, greeting, version, debug_assertions, ctx, kdefs, tasks, queue,
                   wstate, wbuf, device, enq, answered>>

\* channel.read_u64() of the version; the connection is returned
ReadVersion ==
    /\ conn = "greeted"
    /\ conn' = Connection_new(greeting, version)
    /\ UNCHANGED <<attr_vars, greeting, version, debug_assertions, ctx, kdefs, tasks, queue,
                   wstate, wbuf, device, enq, answered>>

NextSetup ==
    \/ ReadGreeting
    \/ ReadVersion
    \/ ReadClassDef
    \/ ReadEvtypeDef

SpecSetup == InitSetup /\ [][NextSetup]_vars

\* C9: the run loop is entered only if the greeting is the native magic and
\* the version is PROTOCOL_VERSION.
C9_RunOnlyIfSupported ==
    conn = "run" => (greeting = GREETING_NATIVE_BYTE_ORDER /\ version = PROTOCOL_VERSION)

(***************************************************************************)
(* The handler chain on its own: one task is spawned for an event of any   *)
(* announced type, with any membership of its subject and object, in       *)
(* either build, and chooses its handler.                                  *)
(***************************************************************************)
RECURSIVE RegisterDefs(_, _)
RegisterDefs(c, n) ==
    IF n = 0 THEN c
    ELSE IF KernelDefs[n].cmd = "kclassdef"
         THEN register_kclass_def(RegisterDefs(c, n - 1), KernelDefs[n])
         ELSE register_kevtype_def(RegisterDefs(c, n - 1), KernelDefs[n])

\* memberships in the three virtual spaces of the configuration
SelectVs == {<<b>> : b \in 0..7}

SelectRequests(evid) ==
    CASE evid = 11 ->
            {[subject |-> [class |-> 1, vs |-> sv, cinfo |-> 0],
              object |-> [class |-> 1, vs |-> <<0>>, cinfo |-> 1],
              path |-> p] : sv \in SelectVs, p \in {"home", "zz"}}
      [] evid = 12 ->
            {[subject |-> [class |-> 2, vs |-> sv, cinfo |-> 0],
              object |-> [class |-> 2, vs |-> ov, cinfo |-> 0],
              path |-> ""] : sv \in SelectVs, ov \in SelectVs}
      [] OTHER ->
            {[subject |-> [class |-> 2, vs |-> sv, cinfo |-> 0],
              object |-> NoObject, path |-> ""] : sv \in SelectVs}

InitSelect ==
    /\ conn = "run"
    /\ greeting = GREETING_NATIVE_BYTE_ORDER
    /\ version = PROTOCOL_VERSION
    /\ debug_assertions \in BOOLEAN
    /\ ctx = RegisterDefs(Context_new, Len(KernelDefs))
    /\ kdefs = Len(KernelDefs)
    /\ \E evid \in {11, 12, 13} : \E req \in SelectRequests(evid) :
        tasks = <<SpawnTask(KernelRequestId(0), evid, req)>>
    /\ queue = <<>>
    /\ wstate = "idle"
    /\ wbuf = <<>>
    /\ device = <<>>
    /\ enq = <<>>
    /\ answered = {}
    /\ kclass = NewObject({})
    /\ result = "Ok"
    /\ call = NoCall

NextSelect ==
    \/ \E t \in 1..Len(tasks) : TaskDefault(t)
    \/ \E t \in 1..Len(tasks) : TaskHierarchy(t)
    \/ \E t \in 1..Len(tasks) : TaskRequest(t)

SpecSelect == InitSelect /\ [][NextSelect]_vars

\* the handlers bound to the event of a task, in configured order
BoundHandlers(t) ==
    IF ctx.evtypes[tasks[t].evid].name \in DOMAIN EventHandlers
    THEN EventHandlers[ctx.evtypes[tasks[t].evid].name] ELSE <<>>

\* positions of the bound handlers that are applicable to the task's event
ApplicableTo(t) ==
    {i \in 1..Len(BoundHandlers(t)) :
        is_applicable(BoundHandlers(t)[i], tasks[t].subject.vs, tasks[t].object.vs)}

\* what a task does when it runs a handler of the kind
RunsKind(kind, before, after) ==
    CASE kind = "update" -> after.op = "update_request"
      [] kind = "fetch" -> after.op = "fetch_request"
      [] OTHER -> \/ after.op = "update_object_no_wait"
                  \/ after.pc = "done" /\ after.answer = MedusaAnswer.Deny

\* C5: a task that handles its event runs the first handler, in configured
\* order, that is bound to the event name and applicable, and no other; when
\* there is none it runs no handler and its decision is the default answer,
\* Allow in a build with debug assertions and Deny otherwise.
C5_FirstApplicableOrDefault ==
    [][\A t \in TaskIds :
          (tasks[t].pc = "spawned" /\ tasks'[t].pc # "spawned") =>
              IF ApplicableTo(t) = {}
              THEN /\ tasks'[t].handler = 0 /\ tasks'[t].op = "" /\ tasks'[t].pc = "done"
                   /\ tasks'[t].answer = IF debug_assertions THEN 3 ELSE 1
                   /\ enq' = <<DecisionAnswer_to_vec(tasks[t].request_id,
                                                     IF debug_assertions THEN 3 ELSE 1)>>
              ELSE /\ \A j \in ApplicableTo(t) : tasks'[t].handler <= j
                   /\ tasks'[t].handler \in ApplicableTo(t)
                   /\ RunsKind(BoundHandlers(t)[tasks'[t].handler].kind, tasks[t], tasks'[t])]_vars

\* in a debug build, a task whose event has no applicable handler has given
\* the default answer
C5_Witness ==
    /\ debug_assertions
    /\ tasks[1].pc = "done"
    /\ tasks[1].evid = 12
    /\ tasks[1].handler = 0
    /\ enq = <<DecisionAnswer_to_vec(KernelRequestId(0), MedusaAnswer.Allow)>>

(***************************************************************************)
(* An object in the hands of a handler: the kernel has marked none or one  *)
(* of its attributes read-only, and the handler applies the mutators of    *)
(* MedusaClass in any order.                                               *)
(***************************************************************************)
InitAttr ==
    /\ conn = "run"
    /\ greeting = GREETING_NATIVE_BYTE_ORDER
    /\ version = PROTOCOL_VERSION
    /\ debug_assertions = FALSE
    /\ ctx = Context_new
    /\ kdefs = 0
    /\ tasks = <<>>
    /\ queue = <<>>
    /\ wstate = "idle"
    /\ wbuf = <<>>
    /\ device = <<>>
    /\ enq = <<>>
    /\ answered = {}
    /\ \E ro \in {{}} \cup {{name} : name \in AttrNames} : kclass = NewObject(ro)
    /\ result = "Ok"
    /\ call = NoCall

\* the bit position the handler uses: the first virtual space, the first
\* monitored event
AttrBits == {0}

\* set_vs, set_vs_read, set_vs_write, set_vs_see
SetVs ==
    /\ \E name \in VsAttrs :
       \E data \in {<<0>>, <<1>>} :
        /\ kclass' = attributes_set(kclass, name, data).attributes
        /\ result' = attributes_set(kclass, name, data).result
        /\ call' = [op |-> "set", name |-> name, data |-> data]
    /\ UNCHANGED conn_vars

\* the names and values a handler passes to set_attribute: the attributes of
\* the object and one the object does not have
SetNames == {"vs", "med_oact", MEDUSA_OCINFO_ATTR_NAME, "uid"}

SetData == {<<1>>, usize_to_bytes(2)}

SetAttribute ==
    /\ \E name \in SetNames, data \in SetData :
        /\ kclass' = set_attribute(kclass, name, data).attributes
        /\ result' = set_attribute(kclass, name, data).result
        /\ call' = [op |-> "set", name |-> name, data |-> data]
    /\ UNCHANGED conn_vars

AddBit ==
    /\ \E name \in BitmapAttrs, n \in AttrBits :
        /\ kclass' = add_bit(kclass, name, n).attributes
        /\ result' = add_bit(kclass, name, n).result
        /\ call' = [op |-> "add", name |-> name, data |-> <<n>>]
    /\ UNCHANGED conn_vars

RemoveBit ==
    /\ \E name \in BitmapAttrs, n \in AttrBits :
        /\ kclass' = remove_bit(kclass, name, n).attributes
        /\ result' = remove_bit(kclass, name, n).result
        /\ call' = [op |-> "remove", name |-> name, data |-> <<n>>]
    /\ UNCHANGED conn_vars

ClearBits ==
    /\ \E name \in BitmapAttrs :
        /\ kclass' = clear_bits(kclass, name).attributes
        /\ result' = clear_bits(kclass, name).result
        /\ call' = [op |-> "clear", name |-> name, data |-> <<>>]
    /\ UNCHANGED conn_vars

SetObjectCinfo ==
    /\ \E cinfo \in {0, 1, 2} :
        /\ kclass' = set_object_cinfo(kclass, cinfo).attributes
        /\ result' = set_object_cinfo(kclass, cinfo).result
        /\ call' = [op |-> "set", name |-> MEDUSA_OCINFO_ATTR_NAME,
                    data |-> usize_to_bytes(cinfo)]
    /\ UNCHANGED conn_vars

NextAttr ==
    \/ SetVs
    \/ AddBit
    \/ RemoveBit
    \/ ClearBits
    \/ SetObjectCinfo

SpecAttr == InitAttr /\ [][NextAttr]_vars

\* C10: the data of an attribute that carries the read-only modifier is
\* what it was when the object arrived, whatever mutators have been applied.
C10_ReadOnlyUnchanged ==
    \A name \in AttrNames :
        kclass[name].read_only => kclass[name].data = ZeroData(name)

(***************************************************************************)
(* The same object under the operations that go through                    *)
(* MedusaAttributes::set only.                                             *)
(***************************************************************************)
NextSet ==
    \/ SetVs
    \/ SetAttribute
    \/ SetObjectCinfo

SpecSet == InitAttr /\ [][NextSet]_vars

\* C11: a set on a read-only attribute returns the modify-read-only error
\* and a set on a name the object does not have returns the unknown-attribute
\* error, both leaving every attribute as it was; any other set returns Ok,
\* makes the given bytes the attribute's data and changes no other attribute.
C11_SetRejectsOrStores ==
    [][call'.op = "set" =>
        LET name == call'.name
            data == call'.data
        IN  IF name \notin DOMAIN kclass
            THEN result' = "UnknownAttribute" /\ kclass' = kclass
            ELSE IF kclass[name].read_only
            THEN result' = "ModifyReadOnlyError" /\ kclass' = kclass
            ELSE /\ result' = "Ok"
                 /\ kclass'[name].data = data
                 /\ kclass'[name].read_only = kclass[name].read_only
                 /\ \A other \in DOMAIN kclass \ {name} :
                        kclass'[other] = kclass[other]]_vars

\* a set of eight bytes on the read-only one-byte "vs" has been refused
C11_Witness ==
    /\ call = [op |-> "set", name |-> "vs", data |-> usize_to_bytes(2)]
    /\ result = "ModifyReadOnlyError"
    /\ kclass["vs"].read_only
    /\ kclass["vs"].data = ZeroData("vs")

(***************************************************************************)
(* EventHandler::is_applicable on its own: a handler with any of a few     *)
(* masks is tested against a subject and an optional object.               *)
(***************************************************************************)
\* everything but the operation under study is as after construction
InitPure ==
    /\ conn = "run"
    /\ greeting = GREETING_NATIVE_BYTE_ORDER
    /\ version = PROTOCOL_VERSION
    /\ debug_assertions = FALSE
    /\ ctx = Context_new
    /\ kdefs = 0
    /\ tasks = <<>>
    /\ queue = <<>>
    /\ wstate = "idle"
    /\ wbuf = <<>>
    /\ device = <<>>
    /\ enq = <<>>
    /\ answered = {}
    /\ kclass = NewObject({})
    /\ result = "Ok"
    /\ call = NoCall

\* masks a handler is built with: no space, one space, two spaces, Space::All
HandlerMasks == {<<0>>, <<1>>, <<3>>, <<255>>}

\* the vs attribute of a subject or an object; it may be longer than the masks
ObjectVs == {<<0>>, <<1>>, <<2>>, <<3, 1>>, <<255>>}

IsApplicable ==
    /\ \E subject_mask \in HandlerMasks, object_mask \in HandlerMasks,
          subject_vs \in ObjectVs, object_vs \in ObjectVs \cup {<<>>} :
        LET h == [subject_vs |-> subject_mask, object_vs |-> object_mask]
        IN  /\ call' = [op |-> "is_applicable", h |-> h,
                        subject_vs |-> subject_vs, object_vs |-> object_vs]
            /\ result' = is_applicable(h, subject_vs, object_vs)
    /\ UNCHANGED <<conn_vars, kclass>>

SpecApplicable == InitPure /\ [][IsApplicable]_vars

\* the positions of the bits that are 1 in the first bitmap_nbytes bytes
BitsOf(vec) ==
    {k \in 0..(8 * bitmap_nbytes - 1) : (vec[k \div 8 + 1] \div Pow2(k % 8)) % 2 = 1}

\* C12 as stated: is_applicable is true exactly when every bit of the
\* subject mask is set in the subject's vs and the event has no object or
\* every bit of the object mask is set in the object's vs.
C12_ApplicableIffMasksCovered ==
    call.op = "is_applicable" =>
        (result <=>
            /\ BitsOf(call.h.subject_vs) \subseteq BitsOf(call.subject_vs)
            /\ \/ call.object_vs = <<>>
               \/ BitsOf(call.h.object_vs) \subseteq BitsOf(call.object_vs))

\* C12 amended: is_applicable is true exactly when the subject mask is all
\* ones or every bit of it is set in the subject's vs, and the object mask is
\* all ones, or the event has no object, or every bit of the object mask is
\* set in the object's vs.
C12_ApplicableIffCoveredOrAll ==
    call.op = "is_applicable" =>
        (result <=>
            /\ \/ bitmap_all(call.h.subject_vs)
               \/ BitsOf(call.h.subject_vs) \subseteq BitsOf(call.subject_vs)
            /\ \/ bitmap_all(call.h.object_vs)
               \/ call.object_vs = <<>>
               \/ BitsOf(call.h.object_vs) \subseteq BitsOf(call.object_vs))

\* a handler for all subjects is applicable to a subject in one space only,
\* its object mask being covered by the object
C12_Witness ==
    /\ call.op = "is_applicable"
    /\ call.h = [subject_vs |-> <<255>>, object_vs |-> <<3>>]
    /\ call.subject_vs = <<2>>
    /\ call.object_vs = <<3, 1>>
    /\ result = TRUE

(***************************************************************************)
(* MedusaClass::enter_tree: a handler enters the subject into the tree by  *)
(* the path of the event, one component after the other.                   *)
(***************************************************************************)
\* the loop of enter_tree over the components of the path from the i-th on;
\* recursive_parent = 0 is None; a component that no child covers and no
\* recursive node precedes makes the expect panic
RECURSIVE enter_tree_walk(_, _, _, _, _)
enter_tree_walk(node, recursive_parent, recursed, path, i) ==
    IF i > Len(path) THEN [node |-> node, recursed |-> recursed]
    ELSE LET ch == child_by_path(node, path[i])
         IN  IF ch # 0
             THEN enter_tree_walk(ch, IF is_recursive(ch) THEN ch ELSE recursive_parent,
                                  recursed, path, i + 1)
             ELSE IF recursive_parent = 0 THEN [node |-> 0, recursed |-> TRUE]
             ELSE enter_tree_walk(recursive_parent, recursive_parent, TRUE, path, i + 1)

\* the node enter_tree ends at (0 when it panics) and whether it recursed
enter_tree(path) ==
    enter_tree_walk(TreeRoot, IF is_recursive(TreeRoot) THEN TreeRoot ELSE 0,
                    FALSE, path, 1)

\* Node::virtual_space: the bitmaps of the node by access type; the nodes
\* "root" and ".*" are members of the first space, no node has other access
virtual_space(node) ==
    [a \in VsAttrs |-> IF a = "vs" /\ node \in {3, 4} THEN <<1>> ELSE <<0>>]

\* MedusaClass::set_access_types
set_access_types(attributes, vs) ==
    attributes_set(
        attributes_set(
            attributes_set(
                attributes_set(attributes, "vs", vs["vs"]).attributes,
                "vsr", vs["vsr"]).attributes,
            "vsw", vs["vsw"]).attributes,
        "vss", vs["vss"]).attributes

\* an enter_tree_with_node that never clears the monitoring bit
enter_tree_with_node_monitoring(attributes, node, recursed, monitored, bit, covered_events) ==
    set_object_cinfo(
        set_attribute(
            set_attribute(set_access_types(attributes, virtual_space(node)),
                          "med_oact", usize_to_bytes(covered_events)).attributes,
            "med_sact", usize_to_bytes(covered_events)).attributes,
        node)

\* enter_tree_with_node on the attributes of the subject, up to its update
enter_tree_with_node(attributes, node, recursed, monitored, bit, covered_events) ==
    LET acts == set_attribute(
                    set_attribute(set_access_types(attributes, virtual_space(node)),
                                  "med_oact",
                                  usize_to_bytes(covered_events)).attributes,
                    "med_sact", usize_to_bytes(covered_events)).attributes
        bits == IF recursed \/ ~(has_children(node) /\ monitored)
                THEN remove_bit(remove_bit(acts, "med_oact", bit).attributes,
                                "med_sact", bit).attributes
                ELSE acts
    IN  set_object_cinfo(bits, node)

\* the components a path is made of, and the paths of up to MaxDepth of them
PathParts == {"root", "1", "sub", "home", "zz"}

MaxDepth == 3

Paths == UNION {[1..n -> PathParts] : n \in 0..MaxDepth}

\* a handler calls enter_tree on the subject of its event; a walk that ends
\* at a node goes on to enter_tree_with_node and sends the update request
EnterTree ==
    /\ call = NoCall
    /\ \E path \in Paths, monitored \in BOOLEAN, monitoring_bit \in {0, 1},
          covered_events \in 0..3 :
        LET end == enter_tree(path)
            new == get_new_request_id(ctx.request_id_cn)
            entered == enter_tree_with_node(kclass, end.node, end.recursed,
                                            monitored, monitoring_bit, covered_events)
            req == MedusaRequest_to_vec("Update", 1, new.id, end.node)
        IN  /\ call' = [op |-> "enter_tree", path |-> path, monitored |-> monitored,
                        monitoring_bit |-> monitoring_bit,
                        covered_events |-> covered_events]
            /\ IF end.node = 0
               THEN /\ result' = end
                    /\ UNCHANGED <<kclass, ctx, queue, enq>>
               ELSE /\ result' = end
                    /\ kclass' = entered.attributes
                    /\ ctx' = [ctx EXCEPT
                            !.request_id_cn = new.cn,
                            !.update_requests = insert_pending(@, new.id, 0)]
                    /\ queue' = Writer_write(queue, req)
                    /\ enq' = Writer_write(enq, req)
    /\ UNCHANGED <<conn, greeting, version, debug_assertions, kdefs, tasks,
                   wstate, wbuf, device, answered>>

SpecEnterTree == InitPure /\ [][EnterTree]_vars

\* the nodes the walk passes while every component is covered: the root and
\* then the child covering each component, up to the first that none covers
RECURSIVE Covered(_, _, _)
Covered(node, path, i) ==
    IF i > Len(path) \/ child_by_path(node, path[i]) = 0 THEN <<node>>
    ELSE <<node>> \o Covered(child_by_path(node, path[i]), path, i + 1)

\* the deepest recursive node of a walk, 0 when it has none
DeepestRecursive(walk) ==
    LET rec == {i \in 1..Len(walk) : is_recursive(walk[i])}
    IN  IF rec = {} THEN 0 ELSE walk[CHOOSE i \in rec : \A j \in rec : j <= i]

\* C13: when a component of the path is covered by no child and a recursive
\* node was passed before it, enter_tree ends at the deepest recursive node
\* passed before that component, flagged as recursed, whatever components
\* follow.
C13_EndsAtRecursiveAncestor ==
    call.op = "enter_tree" =>
        LET walk == Covered(TreeRoot, call.path, 1)
        IN  (Len(walk) <= Len(call.path) /\ DeepestRecursive(walk) # 0) =>
                /\ result.node = DeepestRecursive(walk)
                /\ result.recursed

(***************************************************************************)
(* hierarchy_handler on one getfile event: the subject is anywhere in the  *)
(* tree or nowhere yet, and so is the object (its parent).                 *)
(***************************************************************************)
HierarchyPaths == {"/", "home", "zz", "1"}

HierarchyRequests ==
    {[subject |-> [class |-> 1, vs |-> <<0>>, cinfo |-> sc],
      object |-> [class |-> 1, vs |-> <<0>>, cinfo |-> oc],
      path |-> p] : sc \in {0} \cup DOMAIN Nodes, oc \in {0} \cup DOMAIN Nodes,
                    p \in HierarchyPaths}

InitHierarchy ==
    /\ conn = "run"
    /\ greeting = GREETING_NATIVE_BYTE_ORDER
    /\ version = PROTOCOL_VERSION
    /\ debug_assertions = FALSE
    /\ ctx = RegisterDefs(Context_new, Len(KernelDefs))
    /\ kdefs = Len(KernelDefs)
    /\ \E req \in HierarchyRequests : tasks = <<SpawnTask(KernelRequestId(0), 11, req)>>
    /\ queue = <<>>
    /\ wstate = "idle"
    /\ wbuf = <<>>
    /\ device = <<>>
    /\ enq = <<>>
    /\ answered = {}
    /\ kclass = NewObject({})
    /\ result = "Ok"
    /\ call = NoCall

NextHierarchy ==
    \/ \E t \in 1..Len(tasks) : TaskHierarchy(t)
    \/ \E t \in 1..Len(tasks) : TaskWrite(t)
    \/ \E t \in 1..Len(tasks) : TaskDecide(t)

SpecHierarchy == InitHierarchy /\ [][NextHierarchy]_vars

\* the current node of a task's event: the one of the subject's o_cinfo, or,
\* the subject having none, the one inherited from the object's o_cinfo;
\* 0 when there is neither
CurrentNode(t) ==
    IF tasks[t].subject.cinfo # 0 THEN tasks[t].subject.cinfo
    ELSE IF /\ EventHandlers.getfile[1].from_object
            /\ tasks[t].subject.class = tasks[t].object.class
            /\ tasks[t].path # "/"
         THEN tasks[t].object.cinfo ELSE 0

\* the children of the node whose expression matches the path
CoveringChildren(node, path) ==
    {Nodes[node].children[i] : i \in
        {j \in 1..Len(Nodes[node].children) :
            regex_is_match(Nodes[Nodes[node].children[j]].path, path)}}

MaxChildren == 2

Bin == <<"b", "i", "n">>

AnyText == <<".", "*">>

\* authored expressions: bin, .*, ^bin, bin$, ^bin$
Expressions ==
    {[start |-> FALSE, body |-> Bin, end |-> FALSE],
     [start |-> FALSE, body |-> AnyText, end |-> FALSE],
     [start |-> TRUE, body |-> Bin, end |-> FALSE],
     [start |-> FALSE, body |-> Bin, end |-> TRUE],
     [start |-> TRUE, body |-> Bin, end |-> TRUE]}

\* path components: bin, sbin, bins, x
Components == {Bin, <<"s">> \o Bin, Bin \o <<"s">>, <<"x">>}

Priorities == {0, 1000}

\* NodeBuilder::build: the expression is compiled as written when it starts
\* with ^ or ends with $, and between ^ and $ otherwise
path_regex(path) ==
    IF ~path.start /\ ~path.end THEN [path EXCEPT !.start = TRUE, !.end = TRUE]
    ELSE path

\* Regex::is_match: the body occurs in the text, at its start when the
\* expression starts with ^, up to its end when the expression ends with $
Regex_is_match(regex, text) ==
    \/ regex.body = AnyText
    \/ \E k \in 0..(Len(text) - Len(regex.body)) :
        /\ SubSeq(text, k + 1, k + Len(regex.body)) = regex.body
        /\ regex.start => k = 0
        /\ regex.end => k + Len(regex.body) = Len(text)

\* children in any order at all
children_unordered(added) ==
    {ch \in [1..Cardinality(added) -> added] :
        \A i, j \in 1..Cardinality(added) : i # j => ch[i] # ch[j]}

\* NodeBuilder::build: the children are built in the order of the BTreeMap
\* of priorities, those of one priority in the order of its HashMap, which
\* is any order; each child is [priority, path]
children_built(added) ==
    {ch \in [1..Cardinality(added) -> added] :
        /\ \A i, j \in 1..Cardinality(added) : i # j => ch[i] # ch[j]
        /\ \A i, j \in 1..Cardinality(added) : i < j => ch[i].priority <= ch[j].priority}

\* Node::child_by_path over the built children: the position of the first
\* whose compiled expression matches, 0 for None
children_find(children, part) ==
    LET hits == {i \in 1..Len(children) :
                    Regex_is_match(path_regex(children[i].path), part)}
    IN  IF hits = {} THEN 0 ELSE CHOOSE i \in hits : \A j \in hits : i <= j

\* a node is built from up to MaxChildren children added with
\* add_node_with_priority and asked for the child of a path component
ChildByPath ==
    /\ \E added \in SUBSET [priority : Priorities, path : Expressions] :
        /\ Cardinality(added) <= MaxChildren
        /\ \E children \in children_built(added), part \in Components :
            /\ call' = [op |-> "child_by_path", children |-> children, part |-> part]
            /\ result' = children_find(children, part)
    /\ UNCHANGED <<conn_vars, kclass>>

SpecChildren == InitPure /\ [][ChildByPath]_vars

\* the expression, as authored, matches the whole of the text
MatchesWhole(path, text) == path.body = AnyText \/ path.body = text

\* the expression matches the text the way it is compiled: the whole of the
\* text when it was authored without ^ and $, and as authored otherwise
MatchesAsCompiled(path, text) ==
    IF ~path.start /\ ~path.end THEN MatchesWhole(path, text)
    ELSE Regex_is_match(path, text)

\* C15 as stated: child_by_path returns the first child, lower priorities
\* first, whose expression matches the whole component, none when there is
\* no such child.
C15_FirstWholeMatchByPriority ==
    call.op = "child_by_path" =>
        LET ch == call.children
            hits == {i \in 1..Len(ch) : MatchesWhole(ch[i].path, call.part)}
        IN  /\ \A i, j \in 1..Len(ch) : ch[i].priority < ch[j].priority => i < j
            /\ IF hits = {} THEN result = 0
               ELSE result \in hits /\ \A j \in hits : result <= j

\* C15 amended: child_by_path returns the first child, lower priorities
\* first, whose expression matches the component, an expression authored
\* without ^ and $ matching the whole component only and one authored with
\* either matching as written; none when there is no such child.
C15_FirstCompiledMatchByPriority ==
    call.op = "child_by_path" =>
        LET ch == call.children
            hits == {i \in 1..Len(ch) : MatchesAsCompiled(ch[i].path, call.part)}
        IN  /\ \A i, j \in 1..Len(ch) : ch[i].priority < ch[j].priority => i < j
            /\ IF hits = {} THEN result = 0
               ELSE result \in hits /\ \A j \in hits : result <= j

\* of two children that both match "bin", the one of priority 0 is found
\* although the other, of priority 1000, is the plain expression
C15_Witness ==
    /\ call.op = "child_by_path"
    /\ call.part = Bin
    /\ call.children =
            <<[priority |-> 0, path |-> [start |-> FALSE, body |-> AnyText, end |-> FALSE]],
              [priority |-> 1000, path |-> [start |-> FALSE, body |-> Bin, end |-> FALSE]]>>
    /\ result = 1

(***************************************************************************)
(* Building the tree: every node is allocated, its children are built, and *)
(* it is entered in the cinfo map of the configuration under its address.  *)
(***************************************************************************)
\* addresses an allocation can return; 0 is never one
MaxAddress == 6

Addresses == 1..MaxAddress

\* an allocator that may hand out an address that is in use
Arc_new_reusing(live) == Addresses

\* Arc::new: the addresses a new allocation can get while those of live are
\* in use
Arc_new(live) == Addresses \ live

\* the steps of NodeBuilder::build on a node, in order: the node is
\* allocated, each child is built, the node is inserted in the map
RECURSIVE build_steps(_)
RECURSIVE build_children(_, _)
build_children(children, i) ==
    IF i > Len(children) THEN <<>>
    ELSE build_steps(children[i]) \o build_children(children, i + 1)

build_steps(node) ==
    <<[step |-> "new", node |-> node]>>
    \o build_children(Nodes[node].children, 1)
    \o <<[step |-> "insert", node |-> node]>>

\* Config::node_by_cinfo on the map built: 0 for None
cinfo_nodes_get(cinfo_nodes, cinfo) ==
    IF cinfo \in DOMAIN cinfo_nodes THEN cinfo_nodes[cinfo] ELSE 0

\* result holds the build: at is where each node built so far lives,
\* cinfo_nodes the map of the configuration, steps the steps done
InitBuild ==
    /\ conn = "run"
    /\ greeting = GREETING_NATIVE_BYTE_ORDER
    /\ version = PROTOCOL_VERSION
    /\ debug_assertions = FALSE
    /\ ctx = Context_new
    /\ kdefs = 0
    /\ tasks = <<>>
    /\ queue = <<>>
    /\ wstate = "idle"
    /\ wbuf = <<>>
    /\ device = <<>>
    /\ enq = <<>>
    /\ answered = {}
    /\ kclass = NewObject({})
    /\ result = [at |-> EmptyMap, cinfo_nodes |-> EmptyMap, steps |-> 0]
    /\ call = [op |-> "build", node |-> 0]

\* one step of TreeBuilder::build
NodeBuild ==
    /\ call.op = "build"
    /\ result.steps < Len(build_steps(TreeRoot))
    /\ LET s == build_steps(TreeRoot)[result.steps + 1]
       IN  IF s.step = "new"
           THEN \E a \in Arc_new({result.at[n] : n \in DOMAIN result.at}) :
                    result' = [result EXCEPT !.at = Insert(@, s.node, a),
                                             !.steps = @ + 1]
           ELSE result' = [result EXCEPT
                    !.cinfo_nodes = Insert(@, result.at[s.node], s.node),
                    !.steps = @ + 1]
    /\ UNCHANGED <<conn_vars, kclass, call>>

\* with the configuration built, a handler enters the subject into a node:
\* enter_tree_with_node writes the node's address into o_cinfo
EnterNode ==
    /\ call.op = "build"
    /\ result.steps = Len(build_steps(TreeRoot))
    /\ \E node \in DOMAIN Nodes :
        /\ call' = [op |-> "enter_tree_with_node", node |-> node]
        /\ kclass' = set_object_cinfo(kclass, result.at[node]).attributes
    /\ UNCHANGED <<conn_vars, result>>

NextBuild ==
    \/ NodeBuild
    \/ EnterNode

SpecBuild == InitBuild /\ [][NextBuild]_vars

\* C16: once the configuration is built, node_by_cinfo of the token of a
\* node is that node, for every node; no two nodes have the same token; and
\* the o_cinfo of a subject that has entered a node holds the token under
\* which node_by_cinfo finds that node.
C16_TokenFindsItsNode ==
    result.steps = Len(build_steps(TreeRoot)) =>
        /\ \A n \in DOMAIN Nodes :
            /\ n \in DOMAIN result.at
            /\ cinfo_nodes_get(result.cinfo_nodes, result.at[n]) = n
        /\ \A n, m \in DOMAIN Nodes : n # m => result.at[n] # result.at[m]
        /\ Cardinality(DOMAIN result.cinfo_nodes) = Cardinality(DOMAIN Nodes)
        /\ call.op = "enter_tree_with_node" =>
            \E token \in DOMAIN result.cinfo_nodes :
                /\ kclass[MEDUSA_OCINFO_ATTR_NAME].data = usize_to_bytes(token)
                /\ result.cinfo_nodes[token] = call.node

\* a subject has entered the node "1", built last and living at address 1
C16_Witness ==
    /\ call = [op |-> "enter_tree_with_node", node |-> 5]
    /\ result.steps = Len(build_steps(TreeRoot))
    /\ result.at[5] = 1
    /\ kclass[MEDUSA_OCINFO_ATTR_NAME].data = usize_to_bytes(1)

(***************************************************************************)
(* ConfigBuilder: spaces are added by add_space and the configuration is   *)
(* built.  A node of a tree is known by the path that leads to it; member   *)
(* is, for each node created, the set of spaces it is a member of.  result *)
(* holds the builder and, once it is known, the outcome.                   *)
(***************************************************************************)
MaxSpaces == 3

\* the spaces a configuration is made of: name, path (given by with_path or
\* with_path_recursive), include paths (given by with_include_path) and the
\* names given to include_space and exclude_space; "D" is never added,
\* "fs/(" is not a regular expression, and "fs/a" is the path of one space
\* and an include path of another
SpaceBuilders ==
    {[name |-> "A", path |-> "fs/a", recursive |-> rec, include_path |-> {},
      include_space |-> inc, exclude_space |-> exc] :
        rec \in BOOLEAN, inc \in {{}, {"B"}}, exc \in {{}, {"C"}}}
    \cup
    {[name |-> "B", path |-> path, recursive |-> FALSE, include_path |-> ip,
      include_space |-> inc, exclude_space |-> {}] :
        path \in {"fs/b", "fs/("}, ip \in {{}, {"fs/b2"}, {"fs/a"}}, inc \in {{}, {"C"}}}
    \cup
    {[name |-> "C", path |-> "fs/c", recursive |-> FALSE, include_path |-> {},
      include_space |-> inc, exclude_space |-> {}] : inc \in {{}, {"D"}}}

\* a compiler that accepts every expression
Regex_new_lenient(path) == "Ok"

\* Regex::new on the expression of the last component of the path
Regex_new(path) == IF path = "fs/(" THEN "InvalidRegexError" ELSE "Ok"

\* member_of_include_or_exclude on the node of the path, created if need be
member_of_include_or_exclude(member, path, name, include) ==
    LET old == IF path \in DOMAIN member THEN member[path] ELSE {}
    IN  Insert(member, path, IF include THEN old \cup {name} ELSE old \ {name})

\* the same on the nodes of several paths, one after the other
RECURSIVE member_of_all(_, _, _, _)
member_of_all(member, paths, name, include) ==
    IF paths = {} THEN member
    ELSE LET path == CHOOSE q \in paths : TRUE
         IN  member_of_all(member_of_include_or_exclude(member, path, name, include),
                           paths \ {path}, name, include)

\* NodeBuilder::set_recursive on the node of the path
set_recursive(recursive, path, flag) == Insert(recursive, path, flag)

\* the same on the nodes of several paths
RECURSIVE set_recursive_all(_, _, _)
set_recursive_all(recursive, paths, flag) ==
    IF paths = {} THEN recursive
    ELSE LET path == CHOOSE q \in paths : TRUE
         IN  set_recursive_all(set_recursive(recursive, path, flag), paths \ {path}, flag)

\* recursive is, for each node created, whether it is recursive
ConfigBuilder_new ==
    [added |-> <<>>, space_to_path |-> EmptyMap, include_space |-> EmptyMap,
     exclude_space |-> EmptyMap, member |-> EmptyMap, recursive |-> EmptyMap,
     outcome |-> "builder"]

\* ConfigBuilder::add_space
add_space(b, space) ==
    IF space.name \in DOMAIN b.space_to_path
    THEN [b EXCEPT !.added = Append(@, space),
                   !.outcome = "panic: duplicate space name"]
    ELSE [b EXCEPT
            !.added = Append(@, space),
            !.space_to_path = Insert(@, space.name,
                                     [path |-> space.path, recursive |-> space.recursive]),
            !.member = member_of_all(
                          member_of_include_or_exclude(@, space.path, space.name, TRUE),
                          space.include_path, space.name, TRUE),
            !.recursive = set_recursive_all(
                             set_recursive(@, space.path, space.recursive),
                             space.include_path, FALSE),
            !.include_space = Insert(@, space.name, space.include_space),
            !.exclude_space = Insert(@, space.name, space.exclude_space)]

\* the paths build gives to update_or_create_tree_by_path for the spaces a
\* space includes (or excludes): the path each was added with
paths_of_spaces(b, names) == {b.space_to_path[n].path : n \in names}

\* what the two loops of build do to the recursive flags: the node of the
\* path of every space that is included or excluded gets the flag of that
\* space
RECURSIVE resolve_recursive(_, _, _)
resolve_recursive(b, recursive, referred) ==
    IF referred = {} THEN recursive
    ELSE LET name == CHOOSE q \in referred : TRUE
         IN  resolve_recursive(b, set_recursive(recursive, b.space_to_path[name].path,
                                                b.space_to_path[name].recursive),
                               referred \ {name})

\* the two loops of ConfigBuilder::build over include_space and exclude_space
RECURSIVE resolve_spaces(_, _, _, _)
resolve_spaces(b, member, spaces, include) ==
    IF spaces = {} THEN member
    ELSE LET space == CHOOSE q \in spaces : TRUE
             others == IF include THEN b.include_space[space] ELSE b.exclude_space[space]
         IN  resolve_spaces(b, member_of_all(member, paths_of_spaces(b, others),
                                             space, include),
                            spaces \ {space}, include)

\* ConfigBuilder::build
ConfigBuilder_build(b) ==
    LET names == DOMAIN b.space_to_path
        referred == UNION {b.include_space[n] \cup b.exclude_space[n] : n \in names}
        included == resolve_spaces(b, b.member, names, TRUE)
        excluded == resolve_spaces(b, included, names, FALSE)
    IN  IF ~(referred \subseteq names)
        THEN [b EXCEPT !.outcome = "panic: space does not exist"]
        ELSE IF \E path \in DOMAIN excluded : Regex_new(path) # "Ok"
        THEN [b EXCEPT !.member = excluded, !.outcome = "InvalidRegexError",
                       !.recursive = resolve_recursive(b, @, referred)]
        ELSE [b EXCEPT !.member = excluded, !.outcome = "Ok",
                       !.recursive = resolve_recursive(b, @, referred)]

InitConfig ==
    /\ conn = "run"
    /\ greeting = GREETING_NATIVE_BYTE_ORDER
    /\ version = PROTOCOL_VERSION
    /\ debug_assertions = FALSE
    /\ ctx = Context_new
    /\ kdefs = 0
    /\ tasks = <<>>
    /\ queue = <<>>
    /\ wstate = "idle"
    /\ wbuf = <<>>
    /\ device = <<>>
    /\ enq = <<>>
    /\ answered = {}
    /\ kclass = NewObject({})
    /\ result = ConfigBuilder_new
    /\ call = [op |-> "builder"]

AddSpace ==
    /\ result.outcome = "builder"
    /\ Len(result.added) < MaxSpaces
    /\ \E space \in SpaceBuilders :
        /\ call' = [op |-> "add_space"]
        /\ result' = add_space(result, space)
    /\ UNCHANGED <<conn_vars, kclass>>

Build ==
    /\ result.outcome = "builder"
    /\ call' = [op |-> "build"]
    /\ result' = ConfigBuilder_build(result)
    /\ UNCHANGED <<conn_vars, kclass>>

NextConfig ==
    \/ AddSpace
    \/ Build

SpecConfig == InitConfig /\ [][NextConfig]_vars

\* the space added under the name
SpaceNamed(name) ==
    result.added[CHOOSE i \in 1..Len(result.added) : result.added[i].name = name]

AddedNames == {result.added[i].name : i \in 1..Len(result.added)}

\* the paths of a space: its own path and its include paths
PathsOfSpace(name) == {SpaceNamed(name).path} \cup SpaceNamed(name).include_path

\* the spaces the given ones include, and those they include, and so on
IncludedBy(names) ==
    UNION {SpaceNamed(n).include_space : n \in names \cap AddedNames}

IncludeClosure(names) ==
    LET one == names \cup IncludedBy(names)
        two == one \cup IncludedBy(one)
    IN  two \cup IncludedBy(two)

\* C17: in a configuration that was built, the nodes of all paths of every
\* space that a space includes, directly or through other spaces, are
\* members of the including space, and the nodes of all paths of every space
\* it excludes, and of the spaces those include, are not.
C17_IncludeSpaceTransitive ==
    result.outcome = "Ok" =>
        \A name \in AddedNames :
            LET space == SpaceNamed(name)
                excluded == IncludeClosure(space.exclude_space)
                included == IncludeClosure(space.include_space) \ excluded
            IN  /\ \A other \in included : \A path \in PathsOfSpace(other) :
                    name \in result.member[path]
                /\ \A other \in excluded \ {name} : \A path \in PathsOfSpace(other) :
                    name \notin result.member[path]

\* what is wrong with the spaces added, if anything
DuplicateName ==
    \E i, j \in 1..Len(result.added) : i # j /\ result.added[i].name = result.added[j].name

UndefinedSpace ==
    \E i \in 1..Len(result.added) :
        ~((result.added[i].include_space \cup result.added[i].exclude_space)
            \subseteq AddedNames)

InvalidRegex ==
    \E i \in 1..Len(result.added) :
        \E path \in {result.added[i].path} \cup result.added[i].include_path :
            path = "fs/("

MaxFrames == 2

MsgSeqs == REQUEST_ID_START..(REQUEST_ID_START + 2)

Frames ==
    {[op |-> "fetch_error", class_id |-> 0, msg_seq |-> 0, log |-> ""]}
    \cup {[op |-> "fetch_answer", class_id |-> c, msg_seq |-> s, log |-> ""] :
            c \in {2, 9}, s \in MsgSeqs}
    \cup {[op |-> "update_answer", class_id |-> 2, msg_seq |-> s, log |-> ""] :
            s \in MsgSeqs}

\* a reader that takes the data of an unregistered class to be empty
read_fetch_answer_unchecked(classes, class_id) == "Ok"

\* AsyncReader::read_fetch_answer: the length of the data is that of the
\* registered class
read_fetch_answer(classes, class_id) ==
    IF class_id \in DOMAIN classes THEN "Ok" ELSE "UnknownClassError"

InitReader ==
    /\ conn = "run"
    /\ greeting = GREETING_NATIVE_BYTE_ORDER
    /\ version = PROTOCOL_VERSION
    /\ debug_assertions = FALSE
    /\ ctx = RegisterDefs(Context_new, Len(KernelDefs))
    /\ kdefs = Len(KernelDefs)
    /\ \E first, second \in AuthRequests(12) :
        tasks = <<SpawnTask(KernelRequestId(0), 12, first),
                  SpawnTask(KernelRequestId(1), 12, second)>>
    /\ queue = <<>>
    /\ wstate = "idle"
    /\ wbuf = <<>>
    /\ device = <<>>
    /\ enq = <<>>
    /\ answered = {}
    /\ kclass = NewObject({})
    /\ result = 0
    /\ call = NoCall

\* answer routing: the answer goes to the task that waits for it, or is
\* logged and dropped
RouteAnswer(frame, table) ==
    /\ tasks' = Deliver(tasks, table, frame.msg_seq)
    /\ call' = [frame EXCEPT !.log = IF frame.msg_seq \in DOMAIN table THEN ""
                                     ELSE "no pending request"]
    /\ answered' = answered \cup {frame.msg_seq}
    /\ conn' = conn

\* the reader loop takes one command frame off the device
ReadFrame ==
    /\ conn = "run"
    /\ result < MaxFrames
    /\ result' = result + 1
    /\ \E frame \in Frames :
        CASE frame.op = "fetch_error" ->
                /\ call' = [frame EXCEPT !.log = "MEDUSA_COMM_FETCH_ERROR"]
                /\ UNCHANGED <<conn, ctx, tasks, answered>>
          [] frame.op = "update_answer" ->
                /\ RouteAnswer(frame, ctx.update_requests)
                /\ ctx' = [ctx EXCEPT !.update_requests = Dispatch(@, frame.msg_seq)]
          [] frame.op = "fetch_answer" ->
                LET read == read_fetch_answer(ctx.classes, frame.class_id)
                IN  IF read # "Ok"
                    THEN /\ conn' = read
                         /\ call' = frame
                         /\ UNCHANGED <<ctx, tasks, answered>>
                    ELSE /\ RouteAnswer(frame, ctx.fetch_requests)
                         /\ ctx' = [ctx EXCEPT !.fetch_requests = Dispatch(@, frame.msg_seq)]
    /\ UNCHANGED <<kclass, greeting, version, debug_assertions, kdefs, queue,
                   wstate, wbuf, device, enq>>

NextReader ==
    \/ ReadFrame
    \/ \E t \in 1..Len(tasks) : TaskRequest(t)
    \/ \E t \in 1..Len(tasks) : TaskWrite(t)
    \/ \E t \in 1..Len(tasks) : TaskResume(t)
    \/ WriterStep

SpecReader == InitReader /\ [][NextReader]_vars

\* the step reads a frame
FrameRead == result' = result + 1

\* what the tasks have been sent
Inboxes == [t \in 1..Len(tasks) |-> tasks[t].inbox]

\* C19: reading a fetch answer of a class that is not registered fails with
\* the unknown-class error and ends the reader loop with it: the answer is
\* delivered to no pending request, the pending tables stay as they are,
\* and once the loop has ended no frame is read any more.
C19_UnknownClassIsFatal ==
    [][/\ (FrameRead /\ call'.op = "fetch_answer" /\ call'.class_id \notin DOMAIN ctx.classes)
            => /\ conn' = "UnknownClassError"
               /\ tasks' = tasks
               /\ ctx' = ctx
       /\ conn # "run" => (result' = result /\ Inboxes' = Inboxes /\ conn' = conn)]_vars

\* a fetch answer of an unregistered class has ended the loop while the
\* request it answers is still pending
C19_Witness ==
    /\ conn = "UnknownClassError"
    /\ call.op = "fetch_answer"
    /\ call.msg_seq \in DOMAIN ctx.fetch_requests
    /\ \A t \in 1..Len(tasks) : tasks[t].inbox = <<>>

\* the frame read by the step is a fetch error, or an answer of a registered
\* class for which no request is pending
Discardable ==
    /\ FrameRead
    /\ \/ call'.op = "fetch_error"
       \/ call'.op = "update_answer" /\ call'.msg_seq \notin DOMAIN ctx.update_requests
       \/ /\ call'.op = "fetch_answer"
          /\ call'.class_id \in DOMAIN ctx.classes
          /\ call'.msg_seq \notin DOMAIN ctx.fetch_requests

\* C20: a fetch error, and an answer whose sequence number has no pending
\* entry, is logged and discarded: the loop keeps running, the registries,
\* the pending tables and the tasks are as before, and the loop goes on to
\* the next frame.
C20_DiscardedAndRunning ==
    [][Discardable => /\ conn' = "run"
                      /\ ctx' = ctx
                      /\ tasks' = tasks
                      /\ call'.log # ""]_vars

\* a frame was discarded and the next one, an answer, has reached the task
\* waiting for it
C20_Witness ==
    /\ conn = "run"
    /\ result = 2
    /\ call.op \in {"fetch_answer", "update_answer"}
    /\ call.log = ""
    /\ \E t \in 1..Len(tasks) :
        /\ tasks[t].inbox = <<call.msg_seq>>
        /\ tasks[t].received = 0
        /\ \A u \in 1..Len(tasks) \ {t} : tasks[u].inbox = <<>> /\ tasks[u].received = 0

(***************************************************************************)
(* The registries under any definitions of the kernel.  The kernel names   *)
(* a class by its id, which stands for one class for the whole connection; *)
(* it may define a class again, with other attributes, and two of its      *)
(* classes may have one name.  result counts the definitions read.         *)
(***************************************************************************)
MaxDefs == 3

ClassNames == <<"file", "process", "file">>

ClassDefs ==
    {[cmd |-> "kclassdef", kclassid |-> i, name |-> ClassNames[i], attributes |-> a] :
        i \in 1..Len(ClassNames), a \in {<<"vs", "uid">>, <<"uid", "vs">>}}

EvtypeDefs ==
    {[cmd |-> "kevtypedef", evid |-> e, name |-> "getfile",
      ev_sub |-> s, ev_obj |-> o, ev_name |-> n] :
        e \in {11, 12}, s \in 1..2, o \in 1..2,
        n \in {<<"file", "file">>, <<"file", "parent">>}}

\* Context::class_id_from_name; 0 is None
class_id_from_name(c, class_name) ==
    IF class_name \in DOMAIN c.class_id THEN c.class_id[class_name] ELSE 0

\* Context::empty_class_from_id; the record without a name is None
empty_class_from_id(c, class_id) ==
    IF class_id \in DOMAIN c.classes THEN c.classes[class_id]
    ELSE [name |-> "", attributes |-> <<>>]

InitRegistry ==
    /\ conn = "run"
    /\ greeting = GREETING_NATIVE_BYTE_ORDER
    /\ version = PROTOCOL_VERSION
    /\ debug_assertions = FALSE
    /\ ctx = Context_new
    /\ kdefs = 0
    /\ tasks = <<>>
    /\ queue = <<>>
    /\ wstate = "idle"
    /\ wbuf = <<>>
    /\ device = <<>>
    /\ enq = <<>>
    /\ answered = {}
    /\ kclass = NewObject({})
    /\ result = 0
    /\ call = NoCall

\* the reader takes any class definition off the device
RegisterClass ==
    /\ conn = "run"
    /\ result < MaxDefs
    /\ result' = result + 1
    /\ \E def \in ClassDefs :
        /\ ctx' = register_kclass_def(ctx, def)
        /\ call' = [op |-> "kclassdef", def |-> def]
    /\ UNCHANGED <<kclass, conn, greeting, version, debug_assertions, kdefs, tasks,
                   queue, wstate, wbuf, device, enq, answered>>

\* the reader takes any event type definition off the device
RegisterEvtype ==
    /\ conn = "run"
    /\ result < MaxDefs
    /\ result' = result + 1
    /\ \E def \in EvtypeDefs :
        /\ ctx' = register_kevtype_def(ctx, def)
        /\ call' = [op |-> "kevtypedef", def |-> def]
    /\ conn' = IF ctx'.failure # "" THEN "panic" ELSE conn
    /\ UNCHANGED <<kclass, greeting, version, debug_assertions, kdefs, tasks,
                   queue, wstate, wbuf, device, enq, answered>>

NextRegistry == RegisterClass \/ RegisterEvtype

SpecRegistry == InitRegistry /\ [][NextRegistry]_vars

\* C21: once a class definition (id, name) is processed the name leads to
\* the id and the id to a class with exactly the descriptors sent, in the
\* order sent; and in every state each name of the name index leads to an id
\* of the class registry whose class has that name.
C21_RegistryConsistent ==
    [][/\ call'.op = "kclassdef" /\ result' = result + 1
            => /\ class_id_from_name(ctx', call'.def.name) = call'.def.kclassid
               /\ empty_class_from_id(ctx', call'.def.kclassid).attributes
                    = call'.def.attributes
               /\ empty_class_from_id(ctx', call'.def.kclassid).name = call'.def.name
       /\ \A name \in DOMAIN ctx'.class_id :
            /\ ctx'.class_id[name] \in DOMAIN ctx'.classes
            /\ ctx'.classes[ctx'.class_id[name]].name = name]_vars

\* a class is defined a second time with its descriptors in another order,
\* and another class of the same name is registered too
C21_Witness ==
    /\ call.op = "kclassdef"
    /\ result = 3
    /\ call.def.kclassid = 1
    /\ call.def.attributes = <<"uid", "vs">>
    /\ DOMAIN ctx.classes = {1, 3}
    /\ ctx.class_id["file"] = 1

\* C30: an event type defined with the same class as subject and object and
\* the same attribute name on both sides is registered without an object
\* side (ev_obj none, second name empty), any other keeps the object class
\* and names it was defined with, and no event type of the registry has a
\* subject and an object side that are the same.
C30_SameSideCollapsed ==
    [][/\ (call'.op = "kevtypedef" /\ result' = result + 1 /\ ctx'.failure = "")
            => LET def == call'.def
                   kevtype == ctx'.evtypes[def.evid]
               IN  /\ kevtype.ev_sub = def.ev_sub
                   /\ IF def.ev_sub = def.ev_obj /\ def.ev_name[1] = def.ev_name[2]
                      THEN kevtype.ev_obj = 0 /\ kevtype.ev_name = <<def.ev_name[1], "">>
                      ELSE kevtype.ev_obj = def.ev_obj /\ kevtype.ev_name = def.ev_name
       /\ \A evid \in DOMAIN ctx'.evtypes :
            ~(/\ ctx'.evtypes[evid].ev_sub = ctx'.evtypes[evid].ev_obj
              /\ ctx'.evtypes[evid].ev_name[1] = ctx'.evtypes[evid].ev_name[2])]_vars

\* the registry holds an event type that lost its object side and one that
\* kept it
C30_Witness ==
    /\ conn = "run"
    /\ call.op = "kevtypedef"
    /\ call.def.ev_sub = call.def.ev_obj
    /\ call.def.ev_name[1] = call.def.ev_name[2]
    /\ ctx.evtypes[call.def.evid].ev_obj = 0
    /\ \E evid \in DOMAIN ctx.evtypes : ctx.evtypes[evid].ev_obj # 0

(***************************************************************************)
(* bitmap::set_bit and bitmap::clear_bit on any byte slice: result is the  *)
(* slice, call the last operation with the slice it was applied to.        *)
(***************************************************************************)
MaxBytes == 2

BitmapBytes == {0, 1, 5, 128, 255}

Bitmaps == UNION {[1..len -> BitmapBytes] : len \in 1..MaxBytes}

\* the connection is idle: nothing read, nothing dispatched
IdleConnection ==
    /\ conn = "run"
    /\ greeting = GREETING_NATIVE_BYTE_ORDER
    /\ version = PROTOCOL_VERSION
    /\ debug_assertions = FALSE
    /\ ctx = Context_new
    /\ kdefs = 0
    /\ tasks = <<>>
    /\ queue = <<>>
    /\ wstate = "idle"
    /\ wbuf = <<>>
    /\ device = <<>>
    /\ enq = <<>>
    /\ answered = {}

InitBitmap ==
    /\ IdleConnection
    /\ kclass = NewObject({})
    /\ result \in Bitmaps
    /\ call = NoCall

BitmapSetBit ==
    /\ call.op = "none"
    /\ \E n \in 0..(8 * Len(result) - 1) :
        /\ result' = set_bit(result, n)
        /\ call' = [op |-> "set_bit", n |-> n, vec |-> result]
    /\ UNCHANGED <<conn_vars, kclass>>

BitmapClearBit ==
    /\ call.op \in {"none", "set_bit"}
    /\ \E n \in 0..(8 * Len(result) - 1) :
        /\ result' = clear_bit(result, n)
        /\ call' = [op |-> "clear_bit", n |-> n, vec |-> result]
    /\ UNCHANGED <<conn_vars, kclass>>

NextBitmap == BitmapSetBit \/ BitmapClearBit

SpecBitmap == InitBitmap /\ [][NextBitmap]_vars

\* bit n of the slice: byte n div 8, the least significant bit being bit 0
bit_is_set(vec, n) == (vec[n \div 8 + 1] \div Pow2(n % 8)) % 2 = 1

\* set_bit has set bit n and changed no other bit
SetBitSetsOnlyThatBit ==
    call'.op = "set_bit" =>
        /\ Len(result') = Len(result)
        /\ \A m \in 0..(8 * Len(result) - 1) :
            bit_is_set(result', m) = (m = call'.n \/ bit_is_set(result, m))
        /\ \A i \in 1..Len(result) : result'[i] \in 0..255

\* the step clears the bit that the step before it has set
ClearsTheBitJustSet ==
    call.op = "set_bit" /\ call'.op = "clear_bit" /\ call'.n = call.n

\* C24 as stated: set_bit sets bit n and nothing else, and set_bit followed
\* by clear_bit of the same bit leaves the slice as it was.
C24_SetThenClearUnchanged ==
    [][/\ SetBitSetsOnlyThatBit
       /\ ClearsTheBitJustSet => result' = call.vec]_vars

\* C24 amended: set_bit sets bit n and nothing else, and set_bit followed by
\* clear_bit of the same bit leaves the slice as it was with bit n clear:
\* unchanged when bit n was clear before, and without bit n otherwise.
C24_SetThenClearClearsBit ==
    [][/\ SetBitSetsOnlyThatBit
       /\ ClearsTheBitJustSet =>
            /\ Len(result') = Len(call.vec)
            /\ \A m \in 0..(8 * Len(call.vec) - 1) :
                bit_is_set(result', m) = (m # call.n /\ bit_is_set(call.vec, m))
            /\ ~bit_is_set(call.vec, call.n) => result' = call.vec]_vars

\* a bit of the second byte that was clear has been set and cleared again
C24_Witness ==
    /\ call.op = "clear_bit"
    /\ call.n = 9
    /\ call.vec = <<5, 7>>
    /\ result = <<5, 5>>

(***************************************************************************)
(* Instances of a class with a packed layout.  kclass is the instance: the *)
(* size of its class, its attributes in the order of the definition, and   *)
(* for each attribute its descriptor (offset, length, read-only modifier)  *)
(* and its data.  result is the last packed buffer, call the last          *)
(* operation.  The descriptors of a class lie within its size and do not   *)
(* overlap; a class may have bytes that no descriptor covers.              *)
(***************************************************************************)
MaxValueLen == 2

ValueBytes == {0, 1}

\* the values a handler writes: shorter than, as long as and longer than the
\* descriptors
Values == UNION {[1..len -> ValueBytes] : len \in 0..MaxValueLen}

\* the definitions of a class: names in arrival order and descriptors
Layouts ==
    {[size |-> 4, order |-> <<"b", "a">>,
      header |-> [a |-> [offset |-> 2, length |-> 1, read_only |-> ro],
                  b |-> [offset |-> 0, length |-> 2, read_only |-> FALSE]]] :
        ro \in BOOLEAN}

\* an empty instance whose buffers are zero-filled to the descriptor's length
empty_class_zero_filled(layout) ==
    [size |-> layout.size, order |-> layout.order,
     attributes |-> [name \in DOMAIN layout.header |->
        [offset |-> layout.header[name].offset, length |-> layout.header[name].length,
         read_only |-> layout.header[name].read_only,
         data |-> [i \in 1..layout.header[name].length |-> 0]]]]

\* read_attributes, cloned by empty_class: every attribute has its header
\* and no data
empty_class(layout) ==
    [size |-> layout.size, order |-> layout.order,
     attributes |-> [name \in DOMAIN layout.header |->
        [offset |-> layout.header[name].offset, length |-> layout.header[name].length,
         read_only |-> layout.header[name].read_only, data |-> <<>>]]]

\* a pack_data that pads with ones
pack_data_ones(attribute) ==
    [i \in 1..attribute.length |->
        IF i <= Len(attribute.data) THEN attribute.data[i] ELSE 255]

\* MedusaAttribute::pack_data: the data followed by zeros, the first length
\* bytes of it
pack_data(attribute) ==
    [i \in 1..attribute.length |->
        IF i <= Len(attribute.data) THEN attribute.data[i] ELSE 0]

\* MedusaAttributes::pack: each attribute in order, byte by byte, into res
RECURSIVE attributes_pack(_, _, _)
attributes_pack(attributes, order, res) ==
    IF order = <<>> THEN res
    ELSE LET attribute == attributes[Head(order)]
             data == pack_data(attribute)
         IN  attributes_pack(attributes, Tail(order),
                [p \in 1..Len(res) |->
                    IF p - attribute.offset \in 1..attribute.length
                    THEN data[p - attribute.offset] ELSE res[p]])

\* MedusaClass::pack_attributes
pack_attributes(class) ==
    attributes_pack(class.attributes, class.order, [p \in 1..class.size |-> 0])

\* a set_from_raw that reads every attribute from the start of the buffer
set_from_raw_at_start(attributes, raw_data) ==
    [name \in DOMAIN attributes |->
        [attributes[name] EXCEPT !.data = SubSeq(raw_data, 1, attributes[name].length)]]

\* MedusaAttributes::set_from_raw
set_from_raw(attributes, raw_data) ==
    [name \in DOMAIN attributes |->
        [attributes[name] EXCEPT !.data =
            SubSeq(raw_data, attributes[name].offset + 1,
                   attributes[name].offset + attributes[name].length)]]

\* the buffers of a fetch answer or an authorization request
RawBuffers == {<<1, 0, 1, 1>>, <<0, 1, 0, 1>>}

InitPack ==
    /\ IdleConnection
    /\ \E layout \in Layouts : kclass = empty_class(layout)
    /\ result = <<>>
    /\ call = NoCall

\* set of an attribute, known or not, to any value
PackSet ==
    /\ call.op # "panic"
    /\ \E name \in {"a", "b", "c"} : \E data \in Values :
        LET set == attributes_set(kclass.attributes, name, data)
        IN  /\ kclass' = [kclass EXCEPT !.attributes = set.attributes]
            /\ call' = [op |-> "set", name |-> name, data |-> data, result |-> set.result]
    /\ UNCHANGED <<conn_vars, result>>

\* set_from_raw of a buffer of the kernel or of the buffer packed last
PackSetFromRaw ==
    /\ call.op # "panic"
    /\ \E raw_data \in RawBuffers \cup {r \in {result} : Len(r) = kclass.size} :
        /\ kclass' = [kclass EXCEPT !.attributes = set_from_raw(@, raw_data)]
        /\ call' = [op |-> "set_from_raw", name |-> "", data |-> raw_data, result |-> "Ok"]
    /\ UNCHANGED <<conn_vars, result>>

\* add_vs, remove_vs, clear_vs and the like on an attribute of the instance;
\* the index of a byte the data does not have is out of bounds
PackBitmap ==
    /\ call.op # "panic"
    /\ \E op \in {"add_bit", "remove_bit", "clear_bits"} : \E n \in {0, 8} :
        LET data == kclass.attributes["b"].data
            after == CASE op = "add_bit" -> add_bit(kclass.attributes, "b", n)
                       [] op = "remove_bit" -> remove_bit(kclass.attributes, "b", n)
                       [] OTHER -> clear_bits(kclass.attributes, "b")
        IN  IF op # "clear_bits" /\ n \div 8 >= Len(data)
            THEN /\ call' = [op |-> "panic", name |-> "b", data |-> <<n>>,
                             result |-> "index out of bounds"]
                 /\ kclass' = kclass
            ELSE /\ call' = [op |-> op, name |-> "b", data |-> <<n>>, result |-> after.result]
                 /\ kclass' = [kclass EXCEPT !.attributes = after.attributes]
    /\ UNCHANGED <<conn_vars, result>>

\* pack_attributes: a new buffer of the class size, zeroed, then pack
PackAttributes ==
    /\ call.op # "panic"
    /\ result' = pack_attributes(kclass)
    /\ call' = [op |-> "pack_attributes", name |-> "",
                data |-> [p \in 1..kclass.size |-> 0], result |-> "Ok"]
    /\ UNCHANGED <<conn_vars, kclass>>

\* pack into a buffer of the caller
PackInto ==
    /\ call.op # "panic"
    /\ \E res \in {[p \in 1..kclass.size |-> 9]} :
        /\ result' = attributes_pack(kclass.attributes, kclass.order, res)
        /\ call' = [op |-> "pack", name |-> "", data |-> res, result |-> "Ok"]
    /\ UNCHANGED <<conn_vars, kclass>>

NextPack ==
    \/ PackSet
    \/ PackSetFromRaw
    \/ PackBitmap
    \/ PackAttributes
    \/ PackInto

SpecPack == InitPack /\ [][NextPack]_vars

\* the step re-reads, by set_from_raw, the buffer that pack_attributes gives
\* for the instance as it is
RereadsPacked ==
    /\ call'.op = "set_from_raw"
    /\ result = pack_attributes(kclass)
    /\ call'.data = result

\* C22: values written to an instance, packed into a buffer of the class
\* size and read back from that buffer by set_from_raw are recovered
\* exactly, for every value as long as its descriptor says.
C22_PackRoundTrip ==
    [][RereadsPacked =>
        \A name \in DOMAIN kclass.attributes :
            Len(kclass.attributes[name].data) = kclass.attributes[name].length
                => kclass'.attributes[name].data = kclass.attributes[name].data]_vars

\* values of full length, written by set, have been packed and read back
C22_Witness ==
    /\ call.op = "set_from_raw"
    /\ call.data = <<1, 1, 1, 0>>
    /\ result = call.data
    /\ kclass.attributes["a"].data = <<1>>
    /\ kclass.attributes["b"].data = <<1, 1>>

\* the positions of a buffer, counted from 0, that a descriptor covers
CoveredOffsets(class) ==
    UNION {class.attributes[name].offset
            ..(class.attributes[name].offset + class.attributes[name].length - 1) :
           name \in DOMAIN class.attributes}

\* C26: pack writes the value of each descriptor d into the bytes
\* [d.offset, d.offset + d.length) of the buffer, followed by zeros when it
\* is shorter than d.length and cut to d.length when it is longer, and no
\* byte outside the descriptors' ranges: such a byte is as the caller gave
\* it, which is zero in pack_attributes.
C26_PackedLayout ==
    [][call'.op \in {"pack", "pack_attributes"} =>
        /\ Len(result') = kclass.size
        /\ \A name \in DOMAIN kclass.attributes :
            LET d == kclass.attributes[name]
            IN  \A i \in 0..(d.length - 1) :
                    result'[d.offset + i + 1] =
                        IF i < Len(d.data) THEN d.data[i + 1] ELSE 0
        /\ \A p \in 0..(kclass.size - 1) \ CoveredOffsets(kclass) :
            result'[p + 1] = IF call'.op = "pack" THEN call'.data[p + 1] ELSE 0]_vars

\* pack_attributes of a value shorter than its descriptor and one longer
C26_Witness ==
    /\ call.op = "pack_attributes"
    /\ kclass.attributes["a"].data = <<1, 1>>
    /\ kclass.attributes["b"].data = <<1>>
    /\ result = <<1, 0, 1, 0>>

\* the lengths of the buffers of an instance
BufferLengths(class) ==
    [name \in DOMAIN class.attributes |-> Len(class.attributes[name].data)]

\* the lengths its descriptors give
DescriptorLengths(class) ==
    [name \in DOMAIN class.attributes |-> class.attributes[name].length]

\* C25 as stated: every instance, empty or built from a buffer of the
\* kernel, holds for each descriptor a buffer of exactly the descriptor's
\* length, whatever set, set_from_raw and bitmap operations were applied.
C25_BuffersOfDescriptorLength ==
    call.op # "panic" => BufferLengths(kclass) = DescriptorLengths(kclass)

\* C25 amended: an empty instance holds an empty buffer for each
\* descriptor; set_from_raw leaves every buffer of exactly the descriptor's
\* length; the bitmap operations keep the length of every buffer; and set
\* stores the bytes it is given, of whatever length, in the attribute named
\* and changes no other buffer.
C25_BufferLengthsByOperation ==
    [][/\ call.op = "none" =>
            \A name \in DOMAIN kclass.attributes : kclass.attributes[name].data = <<>>
       /\ call'.op = "set_from_raw" =>
            BufferLengths(kclass') = DescriptorLengths(kclass')
       /\ call'.op \in {"add_bit", "remove_bit", "clear_bits"} =>
            BufferLengths(kclass') = BufferLengths(kclass)
       /\ call'.op = "set" =>
            \A name \in DOMAIN kclass.attributes :
                kclass'.attributes[name].data =
                    IF name = call'.name /\ call'.result = "Ok" THEN call'.data
                    ELSE kclass.attributes[name].data]_vars

\* an instance read from a buffer of the kernel on which set has stored a
\* value shorter than the descriptor and a bit was then set
C25_Witness ==
    /\ call.op = "add_bit"
    /\ call.result = "Ok"
    /\ BufferLengths(kclass) = [a |-> 1, b |-> 1]
    /\ DescriptorLengths(kclass) = [a |-> 1, b |-> 2]
    /\ kclass.attributes["a"].data = <<1>>

(***************************************************************************)
(* The arena of space names (SpaceDef) and spaces_to_bitmap.  result is    *)
(* the SpaceDef, call the last operation on it and what it returned.       *)
(***************************************************************************)
MaxListLen == 2

\* the names a configuration defines first, in this order, and the names
\* defined after them in any order
FirstNames == <<"s0", "s1", "s2", "s3", "s4", "s5", "s6", "s7">>

LaterNames == {"x", "y"}

\* Space::All and Space::ByName(name)
Space_All == [all |-> TRUE, name |-> ""]

Space_ByName(name) == [all |-> FALSE, name |-> name]

\* the lists of spaces of a node or a handler; "zz" is never defined
SpaceLists ==
    UNION {[1..len -> {Space_All} \cup {Space_ByName(n) : n \in {"", "s0", "x", "y", "zz"}}] :
            len \in 0..MaxListLen}

\* SpaceDef::new
SpaceDef_new == [id_cn |-> 0, name_to_id |-> EmptyMap, id_to_name |-> EmptyMap]

\* SpaceDef::new_id: the id and the counter afterwards
new_id(def) == [id |-> def.id_cn, id_cn |-> def.id_cn + 1]

\* SpaceDef::insert_space
insert_space(def, name, id) ==
    [def EXCEPT !.name_to_id = Insert(@, name, id), !.id_to_name = Insert(@, id, name)]

\* a define_space that gives a new id to a name it knows
define_space_again(def, name) ==
    insert_space([def EXCEPT !.id_cn = new_id(def).id_cn], name, new_id(def).id)

\* SpaceDef::define_space
define_space(def, name) ==
    IF name \in DOMAIN def.name_to_id THEN def
    ELSE insert_space([def EXCEPT !.id_cn = new_id(def).id_cn], name, new_id(def).id)

\* SpaceDef::bitmap_nbytes
SpaceDef_bitmap_nbytes(def) == (def.id_cn + 7) \div 8

\* bitmap::set_all
set_all(vec) == [i \in 1..Len(vec) |-> 255]

RECURSIVE spaces_fold(_, _, _, _)
\* the loop of spaces_to_bitmap over the list, from the i-th space on; All
\* sets the bits of the defined ids only when padding is FALSE
spaces_fold(spaces, def, vec, padding) ==
    IF spaces = <<>> THEN [outcome |-> "Ok", vec |-> vec]
    ELSE IF Head(spaces).all
    THEN spaces_fold(Tail(spaces), def,
            IF padding THEN set_all(vec)
            ELSE [i \in 1..Len(vec) |->
                    IF 8 * i <= def.id_cn THEN 255 ELSE Pow2(def.id_cn % 8) - 1],
            padding)
    ELSE IF Head(spaces).name # ""
    THEN IF Head(spaces).name \notin DOMAIN def.name_to_id
         THEN [outcome |-> "panic: no such id for space", vec |-> <<>>]
         ELSE spaces_fold(Tail(spaces), def,
                          set_bit(vec, def.name_to_id[Head(spaces).name]), padding)
    ELSE spaces_fold(Tail(spaces), def, vec, padding)

\* spaces_to_bitvec: All sets the bits of the defined ids and no padding bit
spaces_to_bitvec(spaces, def) ==
    spaces_fold(spaces, def, [i \in 1..SpaceDef_bitmap_nbytes(def) |-> 0], FALSE)

\* spaces_to_bitmap
spaces_to_bitmap(spaces, def) ==
    spaces_fold(spaces, def, [i \in 1..SpaceDef_bitmap_nbytes(def) |-> 0], TRUE)

RECURSIVE define_all(_, _)
define_all(def, names) ==
    IF names = <<>> THEN def
    ELSE define_space(define_all(def, SubSeq(names, 1, Len(names) - 1)), names[Len(names)])

InitSpaces ==
    /\ IdleConnection
    /\ kclass = NewObject({})
    /\ \E n \in {0, 1, 7, 8} : result = define_all(SpaceDef_new, SubSeq(FirstNames, 1, n))
    /\ call = NoCall

\* define_space of a name, known or new
DefineSpace ==
    /\ \E name \in LaterNames \cup {"s0"} :
        /\ result' = define_space(result, name)
        /\ call' = [op |-> "define_space", name |-> name, spaces |-> <<>>,
                    returned |-> [outcome |-> "Ok", vec |-> <<>>]]
    /\ UNCHANGED <<conn_vars, kclass>>

\* spaces_to_bitmap of any list with the names defined so far
SpacesToBitmap ==
    /\ \E spaces \in SpaceLists :
        call' = [op |-> "spaces_to_bitmap", name |-> "", spaces |-> spaces,
                 returned |-> spaces_to_bitmap(spaces, result)]
    /\ UNCHANGED <<conn_vars, kclass, result>>

NextSpaces == DefineSpace \/ SpacesToBitmap

SpecSpaces == InitSpaces /\ [][NextSpaces]_vars

\* the spaces of the list
SpacesOf(spaces) == {spaces[i] : i \in 1..Len(spaces)}

\* C23: spaces_to_bitmap aborts with a diagnostic when the list has a
\* nonempty name that is not defined; otherwise it returns a bitmap of
\* bitmap_nbytes bytes with every bit set when the list contains All, and
\* else with bit i set exactly when the list has a nonempty name defined as
\* i; an empty name sets nothing.
C23_BitmapOfSpaces ==
    call.op = "spaces_to_bitmap" =>
        LET named == {space.name : space \in {sp \in SpacesOf(call.spaces) : ~sp.all}} \ {""}
            vec == call.returned.vec
        IN  IF ~(named \subseteq DOMAIN result.name_to_id)
            THEN call.returned.outcome = "panic: no such id for space"
            ELSE /\ call.returned.outcome = "Ok"
                 /\ Len(vec) = (result.id_cn + 7) \div 8
                 /\ \A i \in 0..(8 * Len(vec) - 1) :
                        bit_is_set(vec, i) =
                            \/ Space_All \in SpacesOf(call.spaces)
                            \/ \E name \in named : result.name_to_id[name] = i

\* a bitmap of two bytes with the padding bits set by All, and one with the
\* bit of the ninth name
C23_Witness ==
    /\ call.op = "spaces_to_bitmap"
    /\ result.id_cn = 9
    /\ \/ call.spaces = <<Space_ByName("s0"), Space_All>> /\ call.returned.vec = <<255, 255>>
       \/ call.spaces = <<Space_ByName(""), Space_ByName("x")>>
            /\ call.returned.vec = <<0, 1>>

\* C29: the ids in use are exactly 0..id_count-1; a name mentioned for the
\* first time takes the next unused id; defining a known name changes
\* nothing; an id given to a name is never given again or changed; and the
\* name-to-id and id-to-name maps are inverse to each other in every state.
C29_SpaceIdsStable ==
    [][call'.op = "define_space" =>
        /\ DOMAIN result'.id_to_name = 0..(result'.id_cn - 1)
        /\ \A name \in DOMAIN result'.name_to_id :
            /\ result'.name_to_id[name] \in DOMAIN result'.id_to_name
            /\ result'.id_to_name[result'.name_to_id[name]] = name
        /\ \A id \in DOMAIN result'.id_to_name :
            /\ result'.id_to_name[id] \in DOMAIN result'.name_to_id
            /\ result'.name_to_id[result'.id_to_name[id]] = id
        /\ \A name \in DOMAIN result.name_to_id :
            /\ name \in DOMAIN result'.name_to_id
            /\ result'.name_to_id[name] = result.name_to_id[name]
        /\ IF call'.name \in DOMAIN result.name_to_id
           THEN result' = result
           ELSE /\ result'.name_to_id[call'.name] = result.id_cn
                /\ result'.id_cn = result.id_cn + 1]_vars

\* a known name has been defined again after two new ones
C29_Witness ==
    /\ call.op = "define_space"
    /\ call.name = "s0"
    /\ result.id_cn = 9
    /\ LaterNames \subseteq DOMAIN result.name_to_id
    /\ result.name_to_id["s0"] = 0
    /\ {result.name_to_id["x"], result.name_to_id["y"]} = {7, 8}

(***************************************************************************)
(* The build of a configuration's tree and handlers over one SpaceDef.     *)
(* The tree is a chain root - middle - leaf; NodeBuilder::build builds the *)
(* children of a node before the node itself, so the leaf is built first.  *)
(* result holds the SpaceDef, the nodes still to build (their names), the  *)
(* nodes built (their four bitmaps) and the handlers built.                *)
(***************************************************************************)
\* the names of the leaf, the middle node and the root
LeafNames == {{}, {"a1", "a2", "a3"}}

MiddleNames == {{}, {"b1", "b2", "b3"}, {"a1", "b1", "b2"}}

RootNames == {{}, {"c1"}, {"c1", "c2", "c3"}}

\* the subject and object of the handler; no object is <<>>
HandlerSubjects == {<<Space_All>>, <<Space_ByName("a1")>>, <<Space_ByName("c1")>>}

HandlerObjects == {<<>>, <<Space_All>>, <<Space_ByName("b1")>>}

\* the orders in which a HashSet of names can be iterated
Orders(names) ==
    {order \in [1..Cardinality(names) -> names] :
        \A i, j \in 1..Cardinality(names) : i # j => order[i] # order[j]}

\* NodeBuilder::build after the children: the names of the node are
\* defined, then its four bitmaps (member, read, write, see) are made with
\* the SpaceDef as it is now
NodeBuilder_build(def, order) ==
    LET defined == define_all(def, order)
        spaces == [i \in 1..Len(order) |-> Space_ByName(order[i])]
    IN  [def |-> defined,
         vs |-> <<spaces_to_bitmap(spaces, defined).vec,
                  spaces_to_bitmap(spaces, defined).vec,
                  spaces_to_bitmap(<<>>, defined).vec,
                  spaces_to_bitmap(<<>>, defined).vec>>]

\* EventHandlerBuilder::build
EventHandlerBuilder_build(builder, def) ==
    LET subject == spaces_to_bitmap(builder.subject, def)
        object == IF builder.object = <<>>
                  THEN [outcome |-> "Ok",
                        vec |-> [i \in 1..SpaceDef_bitmap_nbytes(def) |-> 255]]
                  ELSE spaces_to_bitmap(builder.object, def)
    IN  [outcome |-> IF subject.outcome # "Ok" THEN subject.outcome ELSE object.outcome,
         subject_vs |-> subject.vec, object_vs |-> object.vec,
         bitmap_nbytes |-> SpaceDef_bitmap_nbytes(def)]

InitTreeBuild ==
    /\ IdleConnection
    /\ kclass = NewObject({})
    /\ \E leaf \in LeafNames, middle \in MiddleNames, root \in RootNames :
       \E subject \in HandlerSubjects, object \in HandlerObjects :
        result = [def |-> SpaceDef_new, todo |-> <<leaf, middle, root>>, nodes |-> <<>>,
                  builder |-> [subject |-> subject, object |-> object],
                  handlers |-> <<>>, outcome |-> "building"]
    /\ call = [op |-> "build"]

\* the next node of the tree is built
BuildNode ==
    /\ result.outcome = "building"
    /\ result.todo # <<>>
    /\ \E order \in Orders(Head(result.todo)) :
        LET built == NodeBuilder_build(result.def, order)
        IN  result' = [result EXCEPT !.def = built.def, !.todo = Tail(@),
                                     !.nodes = Append(@, built.vs)]
    /\ call' = [op |-> "NodeBuilder::build"]
    /\ UNCHANGED <<conn_vars, kclass>>

\* the trees are built: the handlers are built and build returns
BuildHandlers ==
    /\ result.outcome = "building"
    /\ result.todo = <<>>
    /\ LET handler == EventHandlerBuilder_build(result.builder, result.def)
       IN  result' = IF handler.outcome # "Ok"
                     THEN [result EXCEPT !.outcome = handler.outcome]
                     ELSE [result EXCEPT !.outcome = "Ok", !.handlers = <<handler>>]
    /\ call' = [op |-> "EventHandlerBuilder::build"]
    /\ UNCHANGED <<conn_vars, kclass>>

NextTreeBuild == BuildNode \/ BuildHandlers

SpecTreeBuild == InitTreeBuild /\ [][NextTreeBuild]_vars

\* C28: after build the four bitmaps of every node and the subject and
\* object masks of every handler have the length ceil(id_count / 8), with
\* id_count the number of space names of the whole configuration.
C28_OneBitmapWidth ==
    result.outcome = "Ok" =>
        LET nbytes == (Cardinality(DOMAIN result.def.name_to_id) + 7) \div 8
        IN  /\ \A n \in 1..Len(result.nodes) : \A at \in 1..4 :
                Len(result.nodes[n][at]) = nbytes
            /\ \A h \in 1..Len(result.handlers) :
                /\ Len(result.handlers[h].subject_vs) = nbytes
                /\ Len(result.handlers[h].object_vs) = nbytes

\* the mask without the bit
WithoutBit(mask, bit) ==
    IF (mask \div Pow2(bit)) % 2 = 1 THEN mask - Pow2(bit) ELSE mask

\* the walk of the last enter_tree did not recurse, it ended at a node with
\* children and the event is monitored at the object
KeepsMonitoringBit ==
    ~result.recursed /\ has_children(result.node) /\ call.monitored

\* C27: enter_tree_with_node copies the node's four bitmaps into vs, vsr,
\* vsw and vss of the subject, sets o_cinfo to the node's identity and both
\* action masks to the covered-events mask, with the monitoring bit of the
\* event as in that mask iff the walk did not recurse, the node has children
\* and the event is monitored at the object, and cleared in both masks in
\* every other case; the update request is sent after that.
C27_EnteredNodeAttributes ==
    (call.op = "enter_tree" /\ result.node # 0) =>
        LET acts == IF KeepsMonitoringBit THEN call.covered_events
                    ELSE WithoutBit(call.covered_events, call.monitoring_bit)
        IN  /\ \A a \in VsAttrs : kclass[a].data = virtual_space(result.node)[a]
            /\ kclass["med_oact"].data = usize_to_bytes(acts)
            /\ kclass["med_sact"].data = usize_to_bytes(acts)
            /\ kclass[MEDUSA_OCINFO_ATTR_NAME].data = usize_to_bytes(result.node)
            /\ enq = <<MedusaRequest_to_vec("Update", 1, REQUEST_ID_START, result.node)>>

\* the walk recursed to a member of the first space and the monitoring bit,
\* set in the covered-events mask, was cleared
C27_Witness ==
    /\ call.op = "enter_tree"
    /\ result.recursed
    /\ result.node = 4
    /\ call.monitored
    /\ call.covered_events = 3
    /\ call.monitoring_bit = 1
    /\ kclass["med_oact"].data = usize_to_bytes(1)
    /\ kclass["vs"].data = <<1>>

(***************************************************************************)
(* The poll loop of mcp.rs, frame by frame.  The kernel defines classes    *)
(* and event types in any order and sends authorization requests of any    *)
(* event id.  A class of the registry holds its descriptors and the data   *)
(* read into them; the loop answers every request and sends an update of   *)
(* the subject of getfile and getprocess first.  result counts the         *)
(* definitions read, call is the last frame read.                          *)
(***************************************************************************)
MaxRequests == 2

\* header.size of the class and size of the event type the kernel defines
\* under an id
kclass_size(kclassid) == IF kclassid = 1 THEN 3 ELSE 2

evtype_size(evid) == IF evid = 11 THEN 8 ELSE 10

\* the descriptors of a class of the given size: a byte no descriptor
\* covers lies between the two attributes of the larger class
PollLayout(size) ==
    [size |-> size, order |-> <<"vs", "med_oact">>,
     header |-> [vs |-> [offset |-> 0, length |-> 1, read_only |-> FALSE],
                 med_oact |-> [offset |-> size - 1, length |-> 1, read_only |-> FALSE]]]

PollClassDefs ==
    {[cmd |-> "kclassdef", kclassid |-> i, name |-> ClassNames[i],
      attributes |-> empty_class(PollLayout(kclass_size(i))).attributes] : i \in 1..2}

PollEvtypeDefs ==
    {[cmd |-> "kevtypedef", evid |-> e, name |-> IF e = 11 THEN "getfile" ELSE "setuid",
      ev_sub |-> s, ev_obj |-> o, ev_name |-> n] :
        e \in {11, 12}, s \in 1..2, o \in 0..2,
        n \in {<<"file", "file">>, <<"file", "parent">>}}

\* the bytes acquire_auth_req_data reads after the event id that opens the
\* frame: request id, event id, the rest of the event, the subject and the
\* object of an event type that has one
auth_req_len(c, evid) ==
    LET acctype == c.evtypes[evid]
    IN  8 + 8 + (IF evtype_size(evid) > 8 THEN evtype_size(evid) - 8 ELSE 0)
          + kclass_size(acctype.ev_sub)
          + (IF acctype.ev_obj # 0 THEN kclass_size(acctype.ev_obj) ELSE 0)

\* acquire_auth_req_data: the subject is read into the attributes of its
\* class in the registry
acquire_subject(c, evid, sub) ==
    [c EXCEPT !.classes[c.evtypes[evid].ev_sub].attributes = set_from_raw(@, sub)]

\* the auth branch of poll_loop after the request was read: the writes to
\* the subject, which is the class of the registry
poll_set_attributes(c, evid) ==
    LET subject == c.evtypes[evid].ev_sub
    IN  IF c.evtypes[evid].name \in {"getfile", "getprocess"}
        THEN [c EXCEPT !.classes[subject].attributes =
                          set_attribute(@, "med_oact", <<>>).attributes]
        ELSE c

InitPoll ==
    /\ IdleConnection
    /\ kclass = NewObject({})
    /\ result = 0
    /\ call = NoCall

PollClassDef ==
    /\ conn = "run"
    /\ result < MaxDefs
    /\ result' = result + 1
    /\ \E def \in PollClassDefs :
        /\ ctx' = register_kclass_def(ctx, def)
        /\ call' = [op |-> "kclassdef", def |-> def]
    /\ UNCHANGED <<kclass, conn, greeting, version, debug_assertions, kdefs, tasks,
                   queue, wstate, wbuf, device, enq, answered>>

PollEvtypeDef ==
    /\ conn = "run"
    /\ result < MaxDefs
    /\ result' = result + 1
    /\ \E def \in PollEvtypeDefs :
        /\ ctx' = register_kevtype_def(ctx, def)
        /\ call' = [op |-> "kevtypedef", def |-> def]
    /\ conn' = IF ctx'.failure # "" THEN "panic" ELSE conn
    /\ UNCHANGED <<kclass, greeting, version, debug_assertions, kdefs, tasks,
                   queue, wstate, wbuf, device, enq, answered>>

\* an authorization request: read it, update the subject of getfile and
\* getprocess, send the decision of the callback
PollAuthRequest ==
    /\ conn = "run"
    /\ kdefs < MaxRequests
    /\ \E evid \in {11, 12} : \E byte \in {1, 2} : \E status \in {MedusaAnswer.Allow} :
        LET failure == acquire_auth_req_data(ctx, evid)
            sub == [p \in 1..kclass_size(ctx.evtypes[evid].ev_sub) |-> byte]
            acquired == acquire_subject(ctx, evid, sub)
            written == poll_set_attributes(acquired, evid)
            subject == ctx.evtypes[evid].ev_sub
            packed == attributes_pack(written.classes[subject].attributes,
                                      <<"vs", "med_oact">>,
                                      [p \in 1..kclass_size(subject) |-> 0])
            update == MedusaRequest_to_vec("Update", subject, ctx.request_id_cn, packed)
            decision == DecisionAnswer_to_vec(KernelRequestId(kdefs + 1), status)
            sent == IF ctx.evtypes[evid].name \in {"getfile", "getprocess"}
                    THEN <<update, decision>> ELSE <<decision>>
        IN  IF failure # ""
            THEN /\ ctx' = [ctx EXCEPT !.failure = failure]
                 /\ conn' = "panic"
                 /\ call' = [op |-> "auth_req", evid |-> evid, consumed |-> 0]
                 /\ UNCHANGED <<queue, enq, kdefs>>
            ELSE /\ ctx' = [written EXCEPT !.request_id_cn =
                                IF Len(sent) = 2 THEN @ + 1 ELSE @]
                 /\ conn' = conn
                 /\ kdefs' = kdefs + 1
                 /\ queue' = queue \o sent
                 /\ enq' = enq \o sent
                 /\ call' = [op |-> "auth_req", evid |-> evid,
                             consumed |-> auth_req_len(ctx, evid)]
    /\ UNCHANGED <<kclass, result, greeting, version, debug_assertions, tasks,
                   wstate, wbuf, device, answered>>

NextPoll == PollClassDef \/ PollEvtypeDef \/ PollAuthRequest

SpecPoll == InitPoll /\ [][NextPoll]_vars

\* C31: an event type defined with ev_obj = 0 and a registered subject class
\* is accepted and registered without an object; and an authorization
\* request is read with the block of the object class iff the registered
\* event type has an object.
C31_ObjectKeyedOnEvObj ==
    [][/\ (/\ call'.op = "kevtypedef" /\ result' = result + 1
           /\ call'.def.ev_obj = 0
           /\ call'.def.ev_sub \in DOMAIN ctx.classes)
            => /\ conn' = "run"
               /\ call'.def.evid \in DOMAIN ctx'.evtypes
               /\ ctx'.evtypes[call'.def.evid].ev_obj = 0
       /\ (call'.op = "auth_req" /\ kdefs' = kdefs + 1)
            => LET acctype == ctx.evtypes[call'.evid]
                   head == 16 + evtype_size(call'.evid) - 8 + kclass_size(acctype.ev_sub)
               IN  call'.consumed =
                     IF acctype.ev_obj # 0 THEN head + kclass_size(acctype.ev_obj)
                     ELSE head]_vars

\* C33: reading an authorization request and the writes of its handler leave
\* both registries as they were: empty_class_from_id gives, for every class,
\* the descriptors it gave before and no data, and every event type is as it
\* was defined.
C33_RegistriesUnchanged ==
    [][call'.op = "auth_req" /\ kdefs' = kdefs + 1
            => /\ \A class_id \in DOMAIN ctx.classes :
                    /\ empty_class_from_id(ctx', class_id) = empty_class_from_id(ctx, class_id)
                    /\ \A name \in DOMAIN empty_class_from_id(ctx', class_id).attributes :
                         empty_class_from_id(ctx', class_id).attributes[name].data = <<>>
               /\ ctx'.evtypes = ctx.evtypes]_vars

(***************************************************************************)
(* parse_evtype_header on any action-bits word and object class id: result *)
(* is the header parsed, call the fields it was parsed from.               *)
(***************************************************************************)
MaxMonitoringBit == 24

ACTBIT_FLAGS_MASK == 49152
MEDUSA_EVTYPE_TRIGGEREDATOBJECT == 32768
MEDUSA_EVTYPE_TRIGGEREDBYOBJECTBIT == 16384
MEDUSA_ACCTYPE_TRIGGEREDATOBJECT ==
    MEDUSA_EVTYPE_TRIGGEREDATOBJECT + MEDUSA_EVTYPE_TRIGGEREDBYOBJECTBIT

\* the action-bits words of the kernel: either flag with a low or the
\* highest monitoring bit index
Actbits ==
    {at + by + bit : at \in {0, MEDUSA_EVTYPE_TRIGGEREDATOBJECT},
                     by \in {0, MEDUSA_EVTYPE_TRIGGEREDBYOBJECTBIT},
                     bit \in 0..MaxMonitoringBit \cup {MEDUSA_EVTYPE_TRIGGEREDBYOBJECTBIT - 1}}

\* parse_evtype_header: monitoring, monitoring_bit and ev_obj (0 is None)
parse_evtype_header(actbit, ev_obj) ==
    [monitoring |-> IF ByteAnd(actbit, MEDUSA_ACCTYPE_TRIGGEREDATOBJECT, 16) # 0
                    THEN "Object" ELSE "Subject",
     monitoring_bit |-> ByteAnd(actbit, 65535 - ACTBIT_FLAGS_MASK, 16),
     ev_obj |-> ev_obj]

InitActbit ==
    /\ IdleConnection
    /\ kclass = NewObject({})
    /\ result = [monitoring |-> "Subject", monitoring_bit |-> 0, ev_obj |-> 0]
    /\ call = NoCall

ParseEvtypeHeader ==
    /\ \E actbit \in Actbits : \E ev_obj \in {0, 1} :
        /\ result' = parse_evtype_header(actbit, ev_obj)
        /\ call' = [op |-> "parse_evtype_header", actbit |-> actbit, ev_obj |-> ev_obj]
    /\ UNCHANGED <<conn_vars, kclass>>

SpecActbit == InitActbit /\ [][ParseEvtypeHeader]_vars

\* C32: the event type is monitored at the object iff bit 0x8000 of actbit
\* is set, whatever bit 0x4000 is, and its monitoring bit index is actbit
\* without these two bits.
C32_ActbitDecoding ==
    call.op = "parse_evtype_header" =>
        /\ result.monitoring = "Object" <=> call.actbit >= 32768
        /\ result.monitoring = "Subject" <=> call.actbit < 32768
        /\ result.monitoring_bit = call.actbit % 16384

(***************************************************************************)
(* Suspension of a task on its request (update_request, fetch_request).    *)
(***************************************************************************)
\* the task runs a handler that awaits the answer to its request
Awaits(t) == tasks[t].op \in {"update_request", "fetch_request"}

\* C34: a task that has issued an update or fetch request leaves its await
\* only with the answer that carries its request id; while the reader has
\* not received that answer the task has not ended and no decision of its
\* event is on the writer queue, however many other steps are taken.
C34_SuspendedUntilAnswered ==
    [][\A t \in TaskIds :
        Awaits(t) =>
            /\ (tasks[t].pc = "await" /\ tasks'[t].pc # "await")
                => /\ tasks[t].inbox = <<tasks[t].id>>
                   /\ tasks[t].id \in answered
            /\ tasks'[t].id \notin answered'
                => /\ tasks'[t].pc \in {"rq_write", "await"}
                   /\ \A i \in 1..Len(enq') :
                        ~(IsDecision(enq'[i]) /\ enq'[i][2] = tasks[t].request_id)]_vars

\* a task is suspended on an update whose request the kernel has read and
\* not answered, while a task spawned after it has fetched and decided
C34_Witness ==
    \E t, u \in TaskIds :
        /\ t < u
        /\ tasks[t].op = "update_request" /\ tasks[t].pc = "await"
        /\ tasks[t].id \in Answerable(MEDUSA_COMM_UPDATE_REQUEST)
        /\ tasks[t].inbox = <<>>
        /\ tasks[u].op = "fetch_request" /\ tasks[u].pc = "done"
        /\ DecisionsFor(tasks[u].request_id) # {}

(***************************************************************************)
(* The writer task to its end, in both forms of Writer::new: the loop      *)
(* that selects between the channel and the shutdown notification, and the *)
(* loop that receives from the channel only.  result is the form built.    *)
(* Besides the shutdown notification the senders of the channel may all be *)
(* dropped; the channel then hands over what it still holds and closes.    *)
(* The task is scheduled whenever it can take a step, the device takes     *)
(* what write_all gives it, and the select does not pass over an arm that  *)
(* is ready again and again.                                               *)
(***************************************************************************)
WriterForms == {"select", "while let"}

InitWriterLive ==
    /\ IdleConnection
    /\ kclass = NewObject({})
    /\ result \in WriterForms
    /\ call = NoCall

\* the shutdown arm, which only the selecting loop has
WriterSelectShutdown ==
    /\ result = "select"
    /\ WriterStop

\* every sender of the channel is dropped
WriterDropSenders ==
    /\ conn = "run"
    /\ conn' = "dropped"
    /\ UNCHANGED <<attr_vars, greeting, version, debug_assertions, ctx, kdefs, tasks, queue,
                   wstate, wbuf, device, enq, answered>>

\* receiver.recv() returns None on the closed and empty channel: the loop
\* ends
WriterEnd ==
    /\ wstate = "idle"
    /\ conn = "dropped"
    /\ queue = <<>>
    /\ wstate' = "stopped"
    /\ UNCHANGED <<attr_vars, conn, greeting, version, debug_assertions, ctx, kdefs, tasks,
                   queue, wbuf, device, enq, answered>>

NextWriterLive ==
    \/ WriterSend
    \/ WriterSendFails
    \/ WriterRecv
    \/ WriterWrite
    \/ WriterShutdown
    \/ WriterSelectShutdown
    \/ WriterDropSenders
    \/ WriterEnd

SpecWriterLive ==
    /\ InitWriterLive
    /\ [][NextWriterLive]_vars
    /\ WF_vars(WriterRecv)
    /\ WF_vars(WriterWrite)
    /\ WF_vars(WriterEnd)
    /\ SF_vars(WriterSelectShutdown)

\* C35: once the shutdown notification is broadcast, or every sender of the
\* queue is dropped, the writer task eventually ends, whatever is queued or
\* is enqueued afterwards.
C35_WriterTerminates ==
    (conn \in {"closed", "dropped"}) ~> (wstate = "stopped")

IssuerOf(id) ==
    IF \E t \in TaskIds : tasks[t].id = id
    THEN CHOOSE t \in TaskIds : tasks[t].id = id ELSE 0

\* C36: when update_request or fetch_request hands its request to the writer
\* queue the id already has its entry in the matching pending table, owned
\* by the issuing task; and when the reader reads the answer to such a
\* request the entry is there and the answer reaches the issuer, whatever
\* the tasks, the writer and the reader did in between.
C36_RegisteredBeforeWritten ==
    [][/\ \A i \in (Len(enq) + 1)..Len(enq') :
            LET t == IssuerOf(enq'[i][3])
            IN  (IsRequest(enq'[i]) /\ t # 0 /\ Awaits(t))
                    => /\ enq'[i][3] \in DOMAIN TableOf(tasks[t].op)
                       /\ TableOf(tasks[t].op)[enq'[i][3]] = t
       /\ \A id \in answered' \ answered :
            LET t == IssuerOf(id)
            IN  (t # 0 /\ Awaits(t))
                    => /\ id \in DOMAIN TableOf(tasks[t].op)
                       /\ tasks'[t].inbox = <<id>>]_vars

\* the answer to the first request has reached its issuer while the second
\* request, registered, is still on its way to the device
C36_Witness ==
    \E t, u \in TaskIds :
        /\ t # u
        /\ Awaits(t) /\ tasks[t].inbox = <<tasks[t].id>>
        /\ Awaits(u) /\ tasks[u].pc = "await"
        /\ queue # <<>> /\ IsRequest(queue[Len(queue)])
        /\ queue[Len(queue)][3] = tasks[u].id
        /\ tasks[u].id \in PendingIds

(***************************************************************************)
(* NativeByteOrderReader::read_exact with the poller, one step per turn of *)
(* its loop.  call is the request (the stream as it was and the buffer     *)
(* length), result the buffer, the total, what the stream still holds and  *)
(* whether the call has returned.  A read takes any number of bytes from   *)
(* one to the length of the slice it is given.                             *)
(***************************************************************************)
MaxReadLen == 3

StreamBytes == {1, 2}

Streams == [1..(MaxReadLen + 1) -> StreamBytes]

\* Read::read into the slice: the first n bytes of the stream go to the
\* start of the slice
read(slice, stream, n) ==
    [buf |-> [i \in 1..Len(slice) |-> IF i <= n THEN stream[i] ELSE slice[i]],
     rest |-> SubSeq(stream, n + 1, Len(stream)),
     n |-> n]

InitReadExact ==
    /\ IdleConnection
    /\ kclass = NewObject({})
    /\ \E stream \in Streams : \E len \in 1..MaxReadLen :
        /\ call = [op |-> "read_exact", stream |-> stream, len |-> len]
        /\ result = [buf |-> [i \in 1..len |-> 0], total |-> 0,
                     stream |-> stream, returned |-> FALSE]

\* a turn of the loop: the poller reports the handle readable and read is
\* given the whole buffer
ReadExactTurn ==
    /\ ~result.returned
    /\ result.total # call.len
    /\ result.stream # <<>>
    /\ \E n \in 1..call.len :
        /\ n <= Len(result.stream)
        /\ LET r == read(result.buf, result.stream, n)
           IN  result' = [result EXCEPT !.buf = r.buf, !.stream = r.rest,
                                        !.total = @ + r.n]
    /\ UNCHANGED <<conn_vars, kclass, call>>

\* the loop ends: Ok(total)
ReadExactReturn ==
    /\ ~result.returned
    /\ result.total = call.len
    /\ result' = [result EXCEPT !.returned = TRUE]
    /\ UNCHANGED <<conn_vars, kclass, call>>

NextReadExact == ReadExactTurn \/ ReadExactReturn

SpecReadExact == InitReadExact /\ [][NextReadExact]_vars

\* C38: read_exact returns with the next len(buf) bytes of the stream in
\* buf, in stream order, and these bytes and no others taken from the
\* stream, in however many parts the reads deliver them; and the total never
\* passes len(buf), so that the loop ends once the stream has supplied them.
C38_ReadExactFillsBuffer ==
    /\ result.total <= call.len
    /\ result.returned =>
        /\ result.buf = SubSeq(call.stream, 1, call.len)
        /\ result.stream = SubSeq(call.stream, call.len + 1, Len(call.stream))

(***************************************************************************)
(* The configuration built from the same spaces added in another order.    *)
(***************************************************************************)
\* ConfigBuilder::add_spaces
RECURSIVE add_spaces(_, _)
add_spaces(b, spaces) ==
    IF spaces = <<>> THEN b ELSE add_spaces(add_space(b, Head(spaces)), Tail(spaces))

\* the orders in which n spaces can be added
Reorderings(n) ==
    {f \in [1..n -> 1..n] : \A i, j \in 1..n : f[i] = f[j] => i = j}

\* C39: the configuration that was built has the memberships and the
\* recursive nodes that the same spaces give when added in any other order;
\* the node of a path given by with_path_recursive is recursive and the node
\* of the path of a space is a member of that space.
C39_OrderIndependent ==
    (call.op = "build" /\ result.outcome = "Ok") =>
        /\ \A f \in Reorderings(Len(result.added)) :
            LET other == ConfigBuilder_build(
                            add_spaces(ConfigBuilder_new,
                                       [i \in 1..Len(result.added) |-> result.added[f[i]]]))
            IN  /\ other.outcome = "Ok"
                /\ other.member = result.member
                /\ other.recursive = result.recursive
        /\ \A i \in 1..Len(result.added) :
            /\ result.added[i].recursive => result.recursive[result.added[i].path]
            /\ result.added[i].name \in result.member[result.added[i].path]

====
